---- MODULE Spec2Model ----
(***************************************************************************)
(* The episode/season synchronisation engine of lowbass' TV Tracker: the   *)
(* React client (src/src/App.tsx) that keeps the watchlist, merges freshly *)
(* fetched episode lists into it, derives seasons, counts and the next     *)
(* episode, and refreshes stale shows in batches; the persistence backend  *)
(* behind it (simple-backend/server.js); and the multi-user backend with   *)
(* its update job (backend/src/services/showService.ts) and its routes.    *)
(*                                                                         *)
(* Conventions.  An optional value (undefined / null in the source) is a   *)
(* sequence of length 0 or 1: <<>> is undefined/null/"" and <<v>> is v.    *)
(* Time is counted in days: a timestamp is a number in 0..MaxTime, an air  *)
(* date string is an optional day.  The opaque pass-through fields of a    *)
(* show (poster, genres, addedDate, the show-level watchedDate, ...) are   *)
(* copied by `...show` in every operation and never read by the engine;    *)
(* the model leaves them out.  The fields of an episode that are only      *)
(* copied (airTime, runtime, summary) are represented by title.            *)
(***************************************************************************)
EXTENDS Integers, Sequences, FiniteSets, Bags, TLC

VARIABLES
    watchlist,         \* useState<Show[]>: the in-memory watchlist
    closureWatchlist,  \* the `watchlist` captured by the daily-update effect
    now,               \* the wall clock, in days
    addFetch,          \* the newItems whose background fetch after add is in flight
    run,               \* the position of updateShowsDaily and its locals
    db,                \* the shows table of the persistence backend, by show id
    failedWrites,      \* how many requests to the backend have failed so far
    obs,               \* history of the refresh run in progress (not program state)
    lab,               \* the inputs and results of a function taken on its own
    service,           \* the multi-user backend: its tables, its update job, its routes
    timers,            \* the timers set by scheduleNextUpdate and the runs they started
    hist               \* history of the runs and of the handler calls (not program state)

vars == <<watchlist, closureWatchlist, now, addFetch, run, db, failedWrites, obs, lab, service, timers, hist>>

----------------------------------------------------------------------------
(* Bounds of the model *)

MaxShows == 1
MaxTime == 2

(* Constants of the program *)

OneDay == 1
batchSize == 3

ShowIds == 1..MaxShows
Times == 0..MaxTime

\* how many requests to the persistence backend may fail in one behaviour
MaxFailedWrites == 1

----------------------------------------------------------------------------
(* Optional values, dates *)

None == <<>>
Some(v) == <<v>>

\* ParseDate with an absent date read as the epoch, as new Date(null) is
ParseDate_MissingIsEpoch(s) == IF s = None THEN Some(0) ELSE Some(s[1])

\* new Date(s): an absent or empty date string gives Invalid Date (NaN)
ParseDate(s) == IF s = None THEN None ELSE Some(s[1])

\* a <= b on Date objects: false as soon as one side is NaN
DateLeq(a, b) == a # None /\ b # None /\ a[1] <= b[1]

\* new Date(episode.airDate) <= now
hasAired(airDate, t) == DateLeq(ParseDate(airDate), Some(t))

----------------------------------------------------------------------------
(* Sequence helpers: Array.prototype.find / sort (filter is SelectSeq) *)

\* The first element of the matches of Array.prototype.find, or undefined
firstOf(hits) == IF hits = <<>> THEN None ELSE Some(Head(hits))

\* ep placed in the sorted t after every element whose episode number is not greater
insertByEpisode(ep, t) ==
    LET p == Cardinality({j \in 1..Len(t) : t[j].episode <= ep.episode})
    IN SubSeq(t, 1, p) \o <<ep>> \o SubSeq(t, p + 1, Len(t))

\* The episodes left in the order of the input
sortByEpisode_Unsorted(s) == s

\* seasonEpisodes.sort((a, b) => a.episode - b.episode): a stable sort
sortByEpisode(s) ==
    LET F[i \in 0..Len(s)] ==
            IF i = 0 THEN <<>> ELSE insertByEpisode(s[i], F[i - 1])
    IN F[Len(s)]

RECURSIVE SetToSortedSeq(_)
SetToSortedSeq(S) ==
    IF S = {} THEN <<>>
    ELSE LET m == CHOOSE x \in S : \A y \in S : x <= y
         IN <<m>> \o SetToSortedSeq(S \ {m})

Range(s) == {s[i] : i \in DOMAIN s}

----------------------------------------------------------------------------
(* The episode source (TVmaze) *)

RawEpisode(id, season, number, name, airdate) ==
    [id |-> id, season |-> season, number |-> number, name |-> name, airdate |-> airdate]

\* The listings the source may answer with for a show.  They cover: no
\* published episode; an episode that airs later; a listing whose order is
\* not the air-date order and whose fields differ for the same ids; an
\* episode withdrawn and another id published in its season/number slot,
\* with no air date yet.
SourceLists ==
    { <<>>,
      << RawEpisode(1, 1, 1, "a", Some(0)), RawEpisode(2, 1, 2, "a", Some(1)) >>,
      << RawEpisode(2, 2, 1, "b", Some(1)), RawEpisode(1, 1, 1, "b", Some(0)) >>,
      << RawEpisode(1, 1, 1, "a", Some(0)), RawEpisode(3, 1, 2, "a", None) >> }

EpisodeIds == UNION {{l[j].id : j \in DOMAIN l} : l \in SourceLists}
SeasonNumbers == UNION {{l[j].season : j \in DOMAIN l} : l \in SourceLists}

\* What the HTTP exchange with the source produced
FetchOutcomes ==
    {[ok |-> TRUE, body |-> l] : l \in SourceLists} \cup {[ok |-> FALSE, body |-> <<>>]}

\* fetchEpisodeList: the mapped episodes, or [] from the catch block
fetchEpisodeList(outcome) ==
    IF outcome.ok
    THEN [i \in 1..Len(outcome.body) |->
            LET ep == outcome.body[i]
            IN [id |-> ep.id, season |-> ep.season, episode |-> ep.number,
                title |-> ep.name, airDate |-> ep.airdate,
                watched |-> FALSE, watchedDate |-> None]]
    ELSE <<>>

----------------------------------------------------------------------------
(* The pure derivations *)

\* organizeEpisodesIntoSeasons
organizeEpisodesIntoSeasons(episodes) ==
    LET numbers == SetToSortedSeq({e.season : e \in Range(episodes)})
    IN [k \in 1..Len(numbers) |->
          LET InSeason(e) == e.season = numbers[k]
              seasonEpisodes == SelectSeq(episodes, InSeason)
              IsWatched(e) == e.watched
          IN [number |-> numbers[k],
              episodes |-> sortByEpisode(seasonEpisodes),
              totalEpisodes |-> Len(seasonEpisodes),
              watchedEpisodes |-> Len(SelectSeq(seasonEpisodes, IsWatched))]]

\* mergeEpisodes with the prior episode looked up by season and episode number
mergeEpisodes_BySeasonNumber(prior, freshEpisodes) ==
    [i \in 1..Len(freshEpisodes) |->
        LET freshEp == freshEpisodes[i]
            SameSlot(ep) == ep.season = freshEp.season /\ ep.episode = freshEp.episode
            existingEp == firstOf(SelectSeq(prior, SameSlot))
        IN [freshEp EXCEPT
              !.watched = IF existingEp = None THEN FALSE ELSE existingEp[1].watched,
              !.watchedDate = IF existingEp = None THEN None ELSE existingEp[1].watchedDate]]

\* mergeEpisodes with the fresh episodes added to the prior list instead of replacing it
mergeEpisodes_Appending(prior, freshEpisodes) ==
    prior \o
    [i \in 1..Len(freshEpisodes) |->
        LET freshEp == freshEpisodes[i]
            SameId(ep) == ep.id = freshEp.id
            existingEp == firstOf(SelectSeq(prior, SameId))
        IN [freshEp EXCEPT
              !.watched = IF existingEp = None THEN FALSE ELSE existingEp[1].watched,
              !.watchedDate = IF existingEp = None THEN None ELSE existingEp[1].watchedDate]]

\* mergeEpisodes with the prior watchedDate carried over and the prior flag not
mergeEpisodes_DateOnly(prior, freshEpisodes) ==
    [i \in 1..Len(freshEpisodes) |->
        LET freshEp == freshEpisodes[i]
            SameId(ep) == ep.id = freshEp.id
            existingEp == firstOf(SelectSeq(prior, SameId))
        IN [freshEp EXCEPT
              !.watchedDate = IF existingEp = None THEN None ELSE existingEp[1].watchedDate]]

\* The merge of updateShowWithEpisodes: fresh fields, prior watch state by id
mergeEpisodes(prior, freshEpisodes) ==
    [i \in 1..Len(freshEpisodes) |->
        LET freshEp == freshEpisodes[i]
            SameId(ep) == ep.id = freshEp.id
            existingEp == firstOf(SelectSeq(prior, SameId))
        IN [freshEp EXCEPT
              !.watched = IF existingEp = None THEN FALSE ELSE existingEp[1].watched,
              !.watchedDate = IF existingEp = None THEN None ELSE existingEp[1].watchedDate]]

\* findNextUnwatched without the air-date test
findNextUnwatched_NoAiredTest(episodes, t) ==
    LET Due(ep) == ~ep.watched
    IN firstOf(SelectSeq(episodes, Due))

\* episodes.find(ep => !ep.watched && new Date(ep.airDate) <= now)
findNextUnwatched(episodes, t) ==
    LET Due(ep) == ~ep.watched /\ hasAired(ep.airDate, t)
    IN firstOf(SelectSeq(episodes, Due))

\* The NextEpisode snapshot, or null
nextEpisodeOf(episodes, t) ==
    LET nextUnwatched == findNextUnwatched(episodes, t)
    IN IF nextUnwatched = None THEN None
       ELSE Some([season |-> nextUnwatched[1].season,
                  episode |-> nextUnwatched[1].episode,
                  title |-> nextUnwatched[1].title,
                  airDate |-> nextUnwatched[1].airDate,
                  hasNext |-> TRUE])

watchedCountOf(episodes) ==
    LET IsWatched(e) == e.watched IN Len(SelectSeq(episodes, IsWatched))

\* updateShowWithEpisodes, after the fetch has answered at time t
updateShowWithEpisodes(show, outcome, t) ==
    LET episodes == mergeEpisodes(show.episodes, fetchEpisodeList(outcome))
        watchedCount == watchedCountOf(episodes)
    IN [show EXCEPT
          !.episodes = episodes,
          !.seasons = organizeEpisodesIntoSeasons(episodes),
          !.totalEpisodes = Len(episodes),
          !.watchedEpisodesCount = watchedCount,
          !.nextEpisode = nextEpisodeOf(episodes, t),
          !.watched = (watchedCount = Len(episodes) /\ Len(episodes) > 0),
          !.lastUpdated = t]

\* withUpdatedEpisodes without the totalEpisodes > 0 test of the watched flag
withUpdatedEpisodes_NoZeroTest(currentShow, updatedEpisodes, t) ==
    LET watchedCount == watchedCountOf(updatedEpisodes)
        totalEpisodes == Len(updatedEpisodes)
    IN [currentShow EXCEPT
          !.episodes = updatedEpisodes,
          !.seasons = organizeEpisodesIntoSeasons(updatedEpisodes),
          !.watchedEpisodesCount = watchedCount,
          !.watched = (watchedCount = totalEpisodes),
          !.nextEpisode = nextEpisodeOf(updatedEpisodes, t),
          !.lastUpdated = t]

\* withUpdatedEpisodes with the seasons of the current show kept as they are
withUpdatedEpisodes_StaleSeasons(currentShow, updatedEpisodes, t) ==
    LET watchedCount == watchedCountOf(updatedEpisodes)
        totalEpisodes == Len(updatedEpisodes)
    IN [currentShow EXCEPT
          !.episodes = updatedEpisodes,
          !.watchedEpisodesCount = watchedCount,
          !.watched = (watchedCount = totalEpisodes /\ totalEpisodes > 0),
          !.nextEpisode = nextEpisodeOf(updatedEpisodes, t),
          !.lastUpdated = t]

\* The show object built by toggleEpisodeWatched, markSeasonWatched and
\* markSeriesWatched from the updated episodes: totalEpisodes is not rewritten
withUpdatedEpisodes(currentShow, updatedEpisodes, t) ==
    LET watchedCount == watchedCountOf(updatedEpisodes)
        totalEpisodes == Len(updatedEpisodes)
    IN [currentShow EXCEPT
          !.episodes = updatedEpisodes,
          !.seasons = organizeEpisodesIntoSeasons(updatedEpisodes),
          !.watchedEpisodesCount = watchedCount,
          !.watched = (watchedCount = totalEpisodes /\ totalEpisodes > 0),
          !.nextEpisode = nextEpisodeOf(updatedEpisodes, t),
          !.lastUpdated = t]

\* toggledEpisodes with the watchedDate of the toggled episode left as it was
toggledEpisodes_KeepsDate(episodes, episodeId, t) ==
    [i \in 1..Len(episodes) |->
        IF episodes[i].id = episodeId
        THEN [episodes[i] EXCEPT !.watched = ~episodes[i].watched]
        ELSE episodes[i]]

\* toggleEpisodeWatched: the updated episodes
toggledEpisodes(episodes, episodeId, t) ==
    [i \in 1..Len(episodes) |->
        IF episodes[i].id = episodeId
        THEN [episodes[i] EXCEPT
                !.watched = ~episodes[i].watched,
                !.watchedDate = IF ~episodes[i].watched THEN Some(t) ELSE None]
        ELSE episodes[i]]

\* seasonMarkedEpisodes without the test that the episode has aired
seasonMarkedEpisodes_NoAiredTest(episodes, seasonNumber, watched, t) ==
    [i \in 1..Len(episodes) |->
        IF episodes[i].season = seasonNumber
        THEN [episodes[i] EXCEPT
                !.watched = watched,
                !.watchedDate = IF watched THEN Some(t) ELSE None]
        ELSE episodes[i]]

\* markSeasonWatched: the updated episodes
seasonMarkedEpisodes(episodes, seasonNumber, watched, t) ==
    [i \in 1..Len(episodes) |->
        IF episodes[i].season = seasonNumber
        THEN LET shouldMarkWatched == IF watched THEN hasAired(episodes[i].airDate, t) ELSE FALSE
             IN [episodes[i] EXCEPT
                   !.watched = shouldMarkWatched,
                   !.watchedDate = IF shouldMarkWatched THEN Some(t) ELSE None]
        ELSE episodes[i]]

\* seriesMarkedEpisodes without the test that the episode has aired
seriesMarkedEpisodes_NoAiredTest(episodes, watched, t) ==
    [i \in 1..Len(episodes) |->
        [episodes[i] EXCEPT
           !.watched = watched,
           !.watchedDate = IF watched THEN Some(t) ELSE None]]

\* seriesMarkedEpisodes with an unmark that clears the aired episodes only
seriesMarkedEpisodes_UnmarkAiredOnly(episodes, watched, t) ==
    [i \in 1..Len(episodes) |->
        IF watched \/ hasAired(episodes[i].airDate, t)
        THEN LET shouldMarkWatched == IF watched THEN hasAired(episodes[i].airDate, t) ELSE FALSE
             IN [episodes[i] EXCEPT
                   !.watched = shouldMarkWatched,
                   !.watchedDate = IF shouldMarkWatched THEN Some(t) ELSE None]
        ELSE episodes[i]]

\* markSeriesWatched: the updated episodes
seriesMarkedEpisodes(episodes, watched, t) ==
    [i \in 1..Len(episodes) |->
        LET shouldMarkWatched == IF watched THEN hasAired(episodes[i].airDate, t) ELSE FALSE
        IN [episodes[i] EXCEPT
              !.watched = shouldMarkWatched,
              !.watchedDate = IF shouldMarkWatched THEN Some(t) ELSE None]]

----------------------------------------------------------------------------
(* The watchlist *)

\* findShow answering the first show of the list when no show has the id
findShow_FirstShow(list, showId) ==
    LET HasId(show) == show.id = showId
    IN IF SelectSeq(list, HasId) # <<>> THEN firstOf(SelectSeq(list, HasId)) ELSE firstOf(list)

\* watchlist.find(show => show.id === showId)
findShow(list, showId) ==
    LET HasId(show) == show.id = showId IN firstOf(SelectSeq(list, HasId))

inList(list, showId) == findShow(list, showId) # None

\* prevWatchlist.map(show => show.id === showId ? updatedShow : show)
replaceShow(list, showId, updatedShow) ==
    [i \in 1..Len(list) |-> IF list[i].id = showId THEN updatedShow ELSE list[i]]

\* The nextEpisode a search result carries: none, or the {hasNext: true} marker
SearchNextEpisodes == {None, Some([hasNext |-> TRUE])}

\* newItem of addToWatchlist
newItem(showId, searchNext, t) ==
    [id |-> showId, episodes |-> <<>>, seasons |-> <<>>, totalEpisodes |-> 0,
     watchedEpisodesCount |-> 0, nextEpisode |-> searchNext, watched |-> FALSE,
     lastUpdated |-> t, expandedSeasons |-> <<>>]

\* The useEffect that owns updateShowsDaily has [watchlist.length] as its
\* dependencies: its closure is renewed only when the length changes
effectClosure(oldList, newList, closure) ==
    IF Len(newList) # Len(oldList) THEN newList ELSE closure

IdleRun == [pc |-> "idle", showsToUpdate |-> <<>>, i |-> 0, updates |-> <<>>]

\* What is recorded about the batch being fetched, per position in the batch:
\* the episodes that were watched in the watchlist when the run took the show
\* up, the episodes whose flag a user operation set while the show's fetch was
\* in flight, and whether the fetch reached the source
NoObs == [startWatched |-> <<>>, touched |-> <<>>, ok |-> <<>>]

watchedIds(list, showId) ==
    LET show == findShow(list, showId)
    IN IF show = None THEN {}
       ELSE {show[1].episodes[j].id : j \in {j \in DOMAIN show[1].episodes : show[1].episodes[j].watched}}

\* batchOf with the slice running to the end of showsToUpdate
batchOf_Unsliced(showsToUpdate, i) ==
    SubSeq(showsToUpdate, i + 1, Len(showsToUpdate))

\* showsToUpdate.slice(i, i + batchSize)
batchOf(showsToUpdate, i) ==
    SubSeq(showsToUpdate, i + 1, IF i + batchSize < Len(showsToUpdate) THEN i + batchSize ELSE Len(showsToUpdate))

\* The run starts fetching the batch at index i
fetchingRun(showsToUpdate, i) ==
    [pc |-> "fetching", showsToUpdate |-> showsToUpdate, i |-> i,
     updates |-> [k \in 1..Len(batchOf(showsToUpdate, i)) |-> None]]

obsOfBatch(list, batch) ==
    [startWatched |-> [k \in 1..Len(batch) |-> watchedIds(list, batch[k].id)],
     touched |-> [k \in 1..Len(batch) |-> {}],
     ok |-> [k \in 1..Len(batch) |-> None]]

\* A user operation on showId set the flags of the episodes ids
obsTouched(showId, ids) ==
    IF run.pc # "fetching" THEN obs
    ELSE LET batch == batchOf(run.showsToUpdate, run.i)
         IN [obs EXCEPT !.touched =
               [k \in DOMAIN obs.touched |->
                  IF batch[k].id = showId /\ run.updates[k] = None
                  THEN obs.touched[k] \cup ids ELSE obs.touched[k]]]

----------------------------------------------------------------------------
(* The persistence backend (simple-backend/server.js) behind apiClient *)

\* JSON.stringify: the text of a value
toJson(v) == [json |-> v]

\* serializeShow: the row of a show
serializeShow(show) ==
    [id |-> show.id,
     watched |-> IF show.watched THEN 1 ELSE 0,
     seasons |-> toJson(show.seasons),
     episodes |-> toJson(show.episodes),
     totalEpisodes |-> show.totalEpisodes,
     watchedEpisodesCount |-> show.watchedEpisodesCount,
     lastUpdated |-> show.lastUpdated,
     expandedSeasons |-> toJson(show.expandedSeasons),
     nextEpisode |-> toJson(show.nextEpisode)]

\* apiClient.saveShow: POST /api/watchlist, INSERT OR REPLACE; saved is
\* whether the request reached the backend and succeeded
saveShow(table, show, saved) ==
    IF saved THEN [table EXCEPT ![show.id] = Some(serializeShow(show))] ELSE table

\* updateShow as an upsert: the row is written whether or not it exists
updateShow_Upserting(table, show, saved) ==
    IF saved THEN [table EXCEPT ![show.id] = Some(serializeShow(show))] ELSE table

\* updateShow with the request never sent
updateShow_NeverSent(table, show, saved) == table

\* apiClient.updateShow: PUT /api/watchlist/:id, UPDATE ... WHERE id = ?
updateShow(table, show, saved) ==
    IF saved /\ table[show.id] # None
    THEN [table EXCEPT ![show.id] = Some(serializeShow(show))]
    ELSE table

\* apiClient.removeShow: DELETE /api/watchlist/:id
removeShow(table, showId, saved) ==
    IF saved THEN [table EXCEPT ![showId] = None] ELSE table

\* the requests of one handler: failed of them are lost
request(failed) ==
    /\ failedWrites + failed <= MaxFailedWrites
    /\ failedWrites' = failedWrites + failed

LabOff == [phase |-> "off"]

\* The scheduling effect left aside: no timer is tracked
TimersOff == [pending |-> <<>>, effectLength |-> 0, runs |-> 0]

\* No run of updateShowsDaily and no job of updateAllShowsEpisodes is in
\* progress: batches is the number of batches that the client's run has
\* started and attempts the shows whose update it has attempted, each as
\* many times as it was; jobBatches and jobAttempts are those of the job;
\* call is the last call of a handler that returned at its test of the show id
HistOff ==
    [batches |-> 0, attempts |-> EmptyBag, jobBatches |-> 0, jobAttempts |-> EmptyBag, call |-> <<>>]

\* The client's run has started its first batch
histOfRun == [HistOff EXCEPT !.batches = 1]

ServiceOff == [pc |-> "off"]

Init ==
    /\ watchlist = <<>>
    /\ closureWatchlist = <<>>
    /\ now = 0
    /\ addFetch = {}
    /\ timers = TimersOff
    /\ hist = HistOff
    /\ run = IdleRun
    /\ db = [s \in ShowIds |-> None]
    /\ failedWrites = 0
    /\ obs = NoObs
    /\ lab = LabOff
    /\ service = ServiceOff

\* The clock advances
Tick ==
    /\ now < MaxTime
    /\ now' = now + 1
    /\ UNCHANGED <<watchlist, closureWatchlist, addFetch, run, db, failedWrites, obs, lab, service, timers, hist>>

----------------------------------------------------------------------------
(* The user operations *)

\* addToWatchlist without the test of the item being in the watchlist
addToWatchlist_NoTest(showId, searchNext, saved) ==
    /\ \A item \in addFetch : item.id # showId
    /\ watchlist' = Append(watchlist, newItem(showId, searchNext, now))
    /\ closureWatchlist' = effectClosure(watchlist, watchlist', closureWatchlist)
    /\ db' = saveShow(db, newItem(showId, searchNext, now), saved)
    /\ request(IF saved THEN 0 ELSE 1)
    /\ addFetch' = addFetch \cup {newItem(showId, searchNext, now)}
    /\ UNCHANGED <<now, run, obs, lab, service, timers, hist>>

\* addToWatchlist, up to the start of the background fetch
addToWatchlist(showId, searchNext, saved) ==
    /\ ~inList(watchlist, showId)
    /\ \A item \in addFetch : item.id # showId
    /\ watchlist' = Append(watchlist, newItem(showId, searchNext, now))
    /\ closureWatchlist' = effectClosure(watchlist, watchlist', closureWatchlist)
    /\ db' = saveShow(db, newItem(showId, searchNext, now), saved)
    /\ request(IF saved THEN 0 ELSE 1)
    /\ addFetch' = addFetch \cup {newItem(showId, searchNext, now)}
    /\ UNCHANGED <<now, run, obs, lab, service, timers, hist>>

\* addToWatchlist, from the answer of the background fetch on
addFetchDone(showId, outcome, saved) ==
    /\ \E item \in addFetch :
          /\ item.id = showId
          /\ LET updatedItem == updateShowWithEpisodes(item, outcome, now)
             IN /\ watchlist' = replaceShow(watchlist, item.id, updatedItem)
                /\ db' = updateShow(db, updatedItem, saved)
                /\ request(IF saved THEN 0 ELSE 1)
          /\ addFetch' = addFetch \ {item}
    /\ UNCHANGED <<closureWatchlist, now, run, obs, lab, service, timers, hist>>

\* removeFromWatchlist with the item put back when the DELETE request fails
removeFromWatchlist_RollsBack(itemId, saved) ==
    /\ inList(watchlist, itemId)
    /\ LET Other(item) == item.id # itemId
       IN watchlist' = IF saved THEN SelectSeq(watchlist, Other) ELSE watchlist
    /\ closureWatchlist' = effectClosure(watchlist, watchlist', closureWatchlist)
    /\ db' = removeShow(db, itemId, saved)
    /\ request(IF saved THEN 0 ELSE 1)
    /\ UNCHANGED <<now, addFetch, run, obs, lab, service, timers, hist>>

\* removeFromWatchlist
removeFromWatchlist(itemId, saved) ==
    /\ inList(watchlist, itemId)
    /\ LET Other(item) == item.id # itemId
       IN watchlist' = SelectSeq(watchlist, Other)
    /\ closureWatchlist' = effectClosure(watchlist, watchlist', closureWatchlist)
    /\ db' = removeShow(db, itemId, saved)
    /\ request(IF saved THEN 0 ELSE 1)
    /\ UNCHANGED <<now, addFetch, run, obs, lab, service, timers, hist>>

\* toggleEpisodeWatched
toggleEpisodeWatched(showId, episodeId, saved) ==
    /\ inList(watchlist, showId)
    /\ LET currentShow == findShow(watchlist, showId)[1]
           updatedEpisodes == toggledEpisodes(currentShow.episodes, episodeId, now)
           updatedShow == withUpdatedEpisodes(currentShow, updatedEpisodes, now)
       IN /\ \E j \in DOMAIN currentShow.episodes : currentShow.episodes[j].id = episodeId
          /\ watchlist' = replaceShow(watchlist, showId, updatedShow)
          /\ db' = updateShow(db, updatedShow, saved)
          /\ request(IF saved THEN 0 ELSE 1)
    /\ obs' = obsTouched(showId, {episodeId})
    /\ UNCHANGED <<closureWatchlist, now, addFetch, run, lab, service, timers, hist>>

\* markSeasonWatched
markSeasonWatched(showId, seasonNumber, watched, saved) ==
    /\ inList(watchlist, showId)
    /\ LET currentShow == findShow(watchlist, showId)[1]
           updatedEpisodes == seasonMarkedEpisodes(currentShow.episodes, seasonNumber, watched, now)
           updatedShow == withUpdatedEpisodes(currentShow, updatedEpisodes, now)
           ids == {currentShow.episodes[j].id :
                     j \in {j \in DOMAIN currentShow.episodes : currentShow.episodes[j].season = seasonNumber}}
       IN /\ ids # {}
          /\ watchlist' = replaceShow(watchlist, showId, updatedShow)
          /\ db' = updateShow(db, updatedShow, saved)
          /\ request(IF saved THEN 0 ELSE 1)
          /\ obs' = obsTouched(showId, ids)
    /\ UNCHANGED <<closureWatchlist, now, addFetch, run, lab, service, timers, hist>>

\* markSeriesWatched (markAsWatched is markSeriesWatched(itemId, true))
markSeriesWatched(showId, watched, saved) ==
    /\ inList(watchlist, showId)
    /\ LET currentShow == findShow(watchlist, showId)[1]
           updatedEpisodes == seriesMarkedEpisodes(currentShow.episodes, watched, now)
           updatedShow == withUpdatedEpisodes(currentShow, updatedEpisodes, now)
       IN /\ watchlist' = replaceShow(watchlist, showId, updatedShow)
          /\ db' = updateShow(db, updatedShow, saved)
          /\ request(IF saved THEN 0 ELSE 1)
          /\ obs' = obsTouched(showId, {currentShow.episodes[j].id : j \in DOMAIN currentShow.episodes})
    /\ UNCHANGED <<closureWatchlist, now, addFetch, run, lab, service, timers, hist>>

----------------------------------------------------------------------------
(* The scheduled refresh: updateShowsDaily *)

\* lastUpdated < oneDayAgo
isStale(show, t) == show.lastUpdated < t - OneDay

\* The timer fires: the stale shows of the captured watchlist, first batch
startDailyUpdate ==
    /\ run.pc = "idle"
    /\ LET Stale(show) == isStale(show, now)
           showsToUpdate == SelectSeq(closureWatchlist, Stale)
       IN /\ Len(showsToUpdate) # 0
          /\ run' = fetchingRun(showsToUpdate, 0)
          /\ obs' = obsOfBatch(watchlist, batchOf(showsToUpdate, 0))
    /\ hist' = [hist EXCEPT !.batches = 1, !.attempts = EmptyBag]
    /\ UNCHANGED <<watchlist, closureWatchlist, now, addFetch, db, failedWrites, lab, service, timers>>

\* One fetch of the batch answers: updateShowWithEpisodes(show) resolves
batchFetchDone(k, outcome) ==
    /\ run.pc = "fetching"
    /\ k \in DOMAIN run.updates
    /\ run.updates[k] = None
    /\ LET show == batchOf(run.showsToUpdate, run.i)[k]
       IN run' = [run EXCEPT !.updates[k] = Some(updateShowWithEpisodes(show, outcome, now))]
    /\ obs' = [obs EXCEPT !.ok[k] = Some(outcome.ok)]
    /\ hist' = [hist EXCEPT !.attempts = @ (+) SetToBag({batchOf(run.showsToUpdate, run.i)[k].id})]
    /\ UNCHANGED <<watchlist, closureWatchlist, now, addFetch, db, failedWrites, lab, service, timers>>

\* prevWatchlist.map(show => updates.find(u => u.id === show.id) || show)
applyUpdates(list, updates) ==
    [n \in 1..Len(list) |->
        LET SameId(u) == u[1].id = list[n].id
            updatedShow == firstOf(SelectSeq(updates, SameId))
        IN IF updatedShow = None THEN list[n] ELSE updatedShow[1][1]]

\* updates.map(updatedShow => apiClient.updateShow(updatedShow)): the
\* requests of the positions in saved succeed
saveUpdates(table, updates, saved) ==
    [s \in DOMAIN table |->
        IF table[s] # None /\ \E k \in saved : updates[k][1].id = s
        THEN Some(serializeShow(updates[CHOOSE k \in saved : updates[k][1].id = s][1]))
        ELSE table[s]]

\* applyBatch with the delay taken after a last batch that is full
applyBatch_DelayAfterLast(saved) ==
    /\ run.pc = "fetching"
    /\ \A k \in DOMAIN run.updates : run.updates[k] # None
    /\ saved \subseteq DOMAIN run.updates
    /\ watchlist' = applyUpdates(watchlist, run.updates)
    /\ db' = saveUpdates(db, run.updates, saved)
    /\ request(Cardinality(DOMAIN run.updates \ saved))
    /\ IF run.i + batchSize <= Len(run.showsToUpdate)
       THEN run' = [run EXCEPT !.pc = "delay"]
       ELSE run' = IdleRun
    /\ obs' = NoObs
    /\ hist' = IF run'.pc = "idle" THEN [hist EXCEPT !.batches = 0, !.attempts = EmptyBag] ELSE hist
    /\ UNCHANGED <<closureWatchlist, now, addFetch, lab, service, timers>>

\* Promise.all of the batch has resolved: the results are written to the
\* watchlist and sent to the backend
applyBatch(saved) ==
    /\ run.pc = "fetching"
    /\ \A k \in DOMAIN run.updates : run.updates[k] # None
    /\ saved \subseteq DOMAIN run.updates
    /\ watchlist' = applyUpdates(watchlist, run.updates)
    /\ db' = saveUpdates(db, run.updates, saved)
    /\ request(Cardinality(DOMAIN run.updates \ saved))
    /\ IF run.i + batchSize < Len(run.showsToUpdate)
       THEN run' = [run EXCEPT !.pc = "delay"]
       ELSE run' = IdleRun
    /\ obs' = NoObs
    /\ hist' = IF run'.pc = "idle" THEN [hist EXCEPT !.batches = 0, !.attempts = EmptyBag] ELSE hist
    /\ UNCHANGED <<closureWatchlist, now, addFetch, lab, service, timers>>

\* The delay between two batches has elapsed: the next batch starts
delayElapsed ==
    /\ run.pc = "delay"
    /\ run' = fetchingRun(run.showsToUpdate, run.i + batchSize)
    /\ obs' = obsOfBatch(watchlist, batchOf(run.showsToUpdate, run.i + batchSize))
    /\ hist' = [hist EXCEPT !.batches = @ + 1]
    /\ UNCHANGED <<watchlist, closureWatchlist, now, addFetch, db, failedWrites, lab, service, timers>>

----------------------------------------------------------------------------
(* The client *)

Next ==
    \/ Tick
    \/ \E s \in ShowIds, ne \in SearchNextEpisodes, saved \in BOOLEAN : addToWatchlist(s, ne, saved)
    \/ \E s \in ShowIds, o \in FetchOutcomes, saved \in BOOLEAN : addFetchDone(s, o, saved)
    \/ \E s \in ShowIds, saved \in BOOLEAN : removeFromWatchlist(s, saved)
    \/ \E s \in ShowIds, e \in EpisodeIds, saved \in BOOLEAN : toggleEpisodeWatched(s, e, saved)
    \/ \E s \in ShowIds, n \in SeasonNumbers, w \in BOOLEAN, saved \in BOOLEAN :
          markSeasonWatched(s, n, w, saved)
    \/ \E s \in ShowIds, w \in BOOLEAN, saved \in BOOLEAN : markSeriesWatched(s, w, saved)
    \/ startDailyUpdate
    \/ \E k \in 1..batchSize, o \in FetchOutcomes : batchFetchDone(k, o)
    \/ \E saved \in SUBSET (1..batchSize) : applyBatch(saved)

Spec == Init /\ [][Next]_vars

----------------------------------------------------------------------------
(* The merge taken on its own: a prior episode list, a fresh listing, the   *)
(* refresh applied once and then once more with the same listing            *)

MaxLabIds == 3
MaxLabLen == 2

LabIds == 1..MaxLabIds
LabNumbers == {1, 2}
LabTitles == {"a", "b"}

LabRaw == {RawEpisode(id, 1, n, name, Some(0)) : id \in LabIds, n \in LabNumbers, name \in LabTitles}

LabWatchStates == {[watched |-> FALSE, watchedDate |-> None], [watched |-> TRUE, watchedDate |-> Some(0)]}

LabEpisodes ==
    {[id |-> r.id, season |-> r.season, episode |-> r.number, title |-> r.name,
      airDate |-> r.airdate, watched |-> w.watched, watchedDate |-> w.watchedDate] :
        r \in LabRaw, w \in LabWatchStates}

\* The sequences over S of length at most MaxLabLen whose ids are distinct
DistinctIdSeqs(S) ==
    UNION {{q \in [1..n -> S] : \A a, b \in 1..n : a # b => q[a].id # q[b].id} : n \in 0..MaxLabLen}

\* A tracked show whose episodes are prior, its derived fields as recomputed at time 0
labShow(prior) ==
    withUpdatedEpisodes([id |-> 1, episodes |-> <<>>, seasons |-> <<>>, totalEpisodes |-> Len(prior),
                         watchedEpisodesCount |-> 0, nextEpisode |-> None, watched |-> FALSE,
                         lastUpdated |-> 0, expandedSeasons |-> <<>>], prior, 0)

LabInit ==
    /\ watchlist = <<>>
    /\ closureWatchlist = <<>>
    /\ now = 0
    /\ addFetch = {}
    /\ timers = TimersOff
    /\ hist = HistOff
    /\ run = IdleRun
    /\ db = [s \in ShowIds |-> None]
    /\ failedWrites = 0
    /\ obs = NoObs
    /\ service = ServiceOff
    /\ \E prior \in DistinctIdSeqs(LabEpisodes), fresh \in DistinctIdSeqs(LabRaw) :
          lab = [phase |-> "input", prior |-> prior, fresh |-> fresh,
                 once |-> labShow(prior), twice |-> labShow(prior)]

\* The refresh of the show with the fresh listing
labRefreshOnce ==
    /\ lab.phase = "input"
    /\ lab' = [lab EXCEPT !.phase = "once",
                          !.once = updateShowWithEpisodes(labShow(lab.prior), [ok |-> TRUE, body |-> lab.fresh], now),
                          !.twice = updateShowWithEpisodes(labShow(lab.prior), [ok |-> TRUE, body |-> lab.fresh], now)]
    /\ UNCHANGED <<watchlist, closureWatchlist, now, addFetch, run, db, failedWrites, obs, service, timers, hist>>

\* The refresh of the result with the same listing, at a time t not before
labRefreshTwice(t) ==
    /\ lab.phase = "once"
    /\ lab' = [lab EXCEPT !.phase = "twice",
                          !.twice = updateShowWithEpisodes(lab.once, [ok |-> TRUE, body |-> lab.fresh], t)]
    /\ UNCHANGED <<watchlist, closureWatchlist, now, addFetch, run, db, failedWrites, obs, service, timers, hist>>

LabNext ==
    \/ labRefreshOnce
    \/ \E t \in Times : labRefreshTwice(t)

SpecMerge == LabInit /\ [][LabNext]_vars

----------------------------------------------------------------------------
(* The user operations taken on their own: a tracked show with any episode  *)
(* list, on which the user toggles and marks while the clock advances       *)

MaxOpsLen == 2

OpsAirDates == {None} \cup {Some(t) : t \in Times}

\* The episode lists a tracked show may have: the k-th episode has id and
\* number k, any season, any air date, and is unwatched or watched since day 0
OpsEpisodeLists ==
    UNION {[1..n -> {[season |-> sn, airDate |-> d, watched |-> w.watched, watchedDate |-> w.watchedDate] :
                        sn \in {1, 2}, d \in OpsAirDates, w \in LabWatchStates}] : n \in 0..MaxOpsLen}

opsEpisodes(l) ==
    [k \in 1..Len(l) |->
        [id |-> k, season |-> l[k].season, episode |-> k, title |-> "a", airDate |-> l[k].airDate,
         watched |-> l[k].watched, watchedDate |-> l[k].watchedDate]]

OpsInit ==
    /\ \E l \in OpsEpisodeLists :
          /\ watchlist = <<labShow(opsEpisodes(l))>>
          /\ db = [s \in ShowIds |-> IF s = 1 THEN Some(serializeShow(labShow(opsEpisodes(l)))) ELSE None]
    /\ closureWatchlist = watchlist
    /\ now = 0
    /\ addFetch = {}
    /\ timers = TimersOff
    /\ hist = HistOff
    /\ run = IdleRun
    /\ failedWrites = 0
    /\ obs = NoObs
    /\ lab = LabOff
    /\ service = ServiceOff

OpsNext ==
    \/ Tick
    \/ \E s \in ShowIds, e \in 1..MaxOpsLen, saved \in BOOLEAN : toggleEpisodeWatched(s, e, saved)
    \/ \E s \in ShowIds, n \in {1, 2}, w \in BOOLEAN, saved \in BOOLEAN :
          markSeasonWatched(s, n, w, saved)
    \/ \E s \in ShowIds, w \in BOOLEAN, saved \in BOOLEAN : markSeriesWatched(s, w, saved)

SpecOps == OpsInit /\ [][OpsNext]_vars

----------------------------------------------------------------------------
(* The backend service (backend/src/services/showService.ts): the job that  *)
(* refreshes the stale shows of the shows table, in batches                 *)

MaxServiceShows == 6

serviceBatchSize == 5

\* What the source may answer the service with: a failure, no episode, a listing
ServiceOutcomes ==
    {[ok |-> FALSE, body |-> <<>>],
     [ok |-> TRUE, body |-> <<>>],
     [ok |-> TRUE, body |-> << RawEpisode(1, 1, 1, "a", Some(0)), RawEpisode(2, 1, 2, "a", Some(1)) >>]}

\* fetchEpisodesFromTvmaze: the mapped episodes, or [] from the catch block
fetchEpisodesFromTvmaze(outcome) ==
    IF outcome.ok
    THEN [i \in 1..Len(outcome.body) |->
            LET ep == outcome.body[i]
            IN [id |-> ep.id, season |-> ep.season, episode |-> ep.number,
                title |-> ep.name, airDate |-> ep.airdate]]
    ELSE <<>>

\* The Prisma call of updateSingleShow that rejects, if any
PrismaFailures == {"none", "findMany", "createMany", "update"}

\* updateSingleShow on the row of a show (its metadata and its episode rows):
\* the row afterwards and whether the function threw
updateSingleShow(row, outcome, failAt, t) ==
    LET latestEpisodes == fetchEpisodesFromTvmaze(outcome)
        existingEpisodeIds == {ep.id : ep \in row.episodes}
        IsNew(ep) == ep.id \notin existingEpisodeIds
        newEpisodes == SelectSeq(latestEpisodes, IsNew)
        created == [row EXCEPT !.episodes = row.episodes \cup Range(newEpisodes)]
    IN IF Len(latestEpisodes) = 0 THEN [row |-> row, threw |-> FALSE]
       ELSE IF failAt = "findMany" THEN [row |-> row, threw |-> TRUE]
       ELSE IF failAt = "createMany" /\ Len(newEpisodes) > 0 THEN [row |-> row, threw |-> TRUE]
       ELSE IF failAt = "update" THEN [row |-> created, threw |-> TRUE]
       ELSE [row |-> [created EXCEPT !.totalEpisodes = Len(latestEpisodes), !.lastApiUpdate = t],
             threw |-> FALSE]

\* showsToUpdate.slice(i, i + batchSize) in updateAllShowsEpisodes
serviceBatchOf(showsToUpdate, i) ==
    SubSeq(showsToUpdate, i + 1,
           IF i + serviceBatchSize < Len(showsToUpdate) THEN i + serviceBatchSize ELSE Len(showsToUpdate))

\* A show of the table as an earlier update left it
serviceRow(lastApiUpdate) ==
    [lastApiUpdate |-> lastApiUpdate, totalEpisodes |-> 1,
     episodes |-> {[id |-> 1, season |-> 1, episode |-> 1, title |-> "b", airDate |-> Some(0)]}]

\* The job at rest over the table shows
serviceAtRest(shows) ==
    [pc |-> "idle", shows |-> shows, showsToUpdate |-> <<>>, i |-> 0, pending |-> {},
     updatedCount |-> 0, errorCount |-> 0,
     before |-> shows, fetchFailed |-> {}, prismaFailed |-> {}]

\* Some days on: a table of shows last updated at day 0, at most one of them today
ServiceInit ==
    /\ watchlist = <<>>
    /\ closureWatchlist = <<>>
    /\ now = MaxTime
    /\ addFetch = {}
    /\ timers = TimersOff
    /\ hist = HistOff
    /\ run = IdleRun
    /\ db = [s \in ShowIds |-> None]
    /\ failedWrites = 0
    /\ obs = NoObs
    /\ lab = LabOff
    /\ \E n \in 0..MaxServiceShows : \E fresh \in SUBSET (1..n) :
          /\ Cardinality(fresh) <= 1
          /\ service = serviceAtRest([id \in 1..n |-> serviceRow(IF id \in fresh THEN now ELSE 0)])

\* The cron job of the day fires: updateAllShowsEpisodes up to the first batch,
\* with the query for the shows whose lastApiUpdate is more than a day old,
\* which may reject
updateAllShowsEpisodes(queryOk) ==
    /\ service.pc = "idle"
    /\ LET stale == {id \in DOMAIN service.shows : service.shows[id].lastApiUpdate < now - OneDay}
           showsToUpdate == SetToSortedSeq(stale)
           started == [serviceAtRest(service.shows) EXCEPT !.showsToUpdate = showsToUpdate]
       IN service' =
             IF ~queryOk THEN [started EXCEPT !.pc = "thrown", !.showsToUpdate = <<>>]
             ELSE IF Len(showsToUpdate) = 0 THEN [started EXCEPT !.pc = "returned"]
             ELSE [started EXCEPT !.pc = "running",
                                  !.pending = 1..Len(serviceBatchOf(showsToUpdate, 0))]
    /\ hist' = [hist EXCEPT !.jobBatches = IF service'.pc = "running" THEN 1 ELSE 0, !.jobAttempts = EmptyBag]
    /\ UNCHANGED <<watchlist, closureWatchlist, now, addFetch, run, db, failedWrites, obs, lab, timers>>

\* One promise of the batch settles: updateSingleShow has returned or thrown
batchPromiseSettled(k, outcome, failAt) ==
    /\ service.pc = "running"
    /\ k \in service.pending
    /\ LET id == serviceBatchOf(service.showsToUpdate, service.i)[k]
           done == updateSingleShow(service.shows[id], outcome, failAt, now)
       IN service' = [service EXCEPT
             !.shows[id] = done.row,
             !.pending = service.pending \ {k},
             !.updatedCount = IF done.threw THEN service.updatedCount ELSE service.updatedCount + 1,
             !.errorCount = IF done.threw THEN service.errorCount + 1 ELSE service.errorCount,
             !.fetchFailed = IF outcome.ok THEN service.fetchFailed ELSE service.fetchFailed \cup {id},
             !.prismaFailed = IF done.threw THEN service.prismaFailed \cup {id} ELSE service.prismaFailed]
    /\ hist' = [hist EXCEPT !.jobAttempts = @ (+) SetToBag({serviceBatchOf(service.showsToUpdate, service.i)[k]})]
    /\ UNCHANGED <<watchlist, closureWatchlist, now, addFetch, run, db, failedWrites, obs, lab, timers>>

\* await Promise.all(batchPromises) resolves: the delay, or the return of the counts
batchPromisesAwaited ==
    /\ service.pc = "running"
    /\ service.pending = {}
    /\ service' = [service EXCEPT !.pc =
          IF service.i + serviceBatchSize < Len(service.showsToUpdate) THEN "delay" ELSE "returned"]
    /\ UNCHANGED <<watchlist, closureWatchlist, now, addFetch, run, db, failedWrites, obs, lab, timers, hist>>

\* The delay between two batches of the job has elapsed
serviceDelayElapsed ==
    /\ service.pc = "delay"
    /\ service' = [service EXCEPT
          !.pc = "running",
          !.i = service.i + serviceBatchSize,
          !.pending = 1..Len(serviceBatchOf(service.showsToUpdate, service.i + serviceBatchSize))]
    /\ hist' = [hist EXCEPT !.jobBatches = @ + 1]
    /\ UNCHANGED <<watchlist, closureWatchlist, now, addFetch, run, db, failedWrites, obs, lab, timers>>

ServiceNext ==
    \/ \E queryOk \in BOOLEAN : updateAllShowsEpisodes(queryOk)
    \/ \E k \in 1..serviceBatchSize, o \in ServiceOutcomes, f \in PrismaFailures :
          batchPromiseSettled(k, o, f)
    \/ batchPromisesAwaited
    \/ serviceDelayElapsed

SpecService == ServiceInit /\ [][ServiceNext]_vars

----------------------------------------------------------------------------
(* The batches of the two refresh jobs: a client whose timer has just fired *)
(* over a watchlist of stale shows, and the job of the backend service      *)

MaxBatchShows == 4

\* A tracked show as its first fetch left it at day 0
trackedShow(showId) ==
    updateShowWithEpisodes(newItem(showId, None, 0),
        [ok |-> TRUE, body |-> << RawEpisode(1, 1, 1, "a", Some(0)), RawEpisode(2, 1, 2, "a", Some(1)) >>], 0)

\* Some days on, updateShowsDaily has taken the stale shows of the watchlist
\* and started the fetches of its first batch
ClientBatchInit ==
    /\ now = MaxTime
    /\ \E n \in 1..MaxBatchShows :
          /\ watchlist = [id \in 1..n |-> trackedShow(id)]
          /\ db = [id \in 1..n |-> Some(serializeShow(trackedShow(id)))]
    /\ closureWatchlist = watchlist
    /\ addFetch = {}
    /\ timers = TimersOff
    /\ hist = histOfRun
    /\ LET Stale(show) == isStale(show, now)
       IN /\ run = fetchingRun(SelectSeq(closureWatchlist, Stale), 0)
          /\ obs = obsOfBatch(watchlist, batchOf(SelectSeq(closureWatchlist, Stale), 0))
    /\ failedWrites = 0
    /\ lab = LabOff
    /\ service = ServiceOff

BatchInit == ClientBatchInit \/ ServiceInit

BatchNext ==
    \/ \E k \in 1..MaxBatchShows, o \in FetchOutcomes : batchFetchDone(k, o)
    \/ \E saved \in SUBSET (1..MaxBatchShows) : applyBatch(saved)
    \/ delayElapsed
    \/ ServiceNext

SpecBatch == BatchInit /\ [][BatchNext]_vars

----------------------------------------------------------------------------
(* Properties *)

idsOf(episodes) == {episodes[j].id : j \in DOMAIN episodes}

isWatchedIn(show, episodeId) ==
    \E j \in DOMAIN show.episodes : show.episodes[j].id = episodeId /\ show.episodes[j].watched

\* C1: an episode that is watched in the watchlist when a refresh run takes up
\* its show, and whose id is in the freshly fetched list, is watched in the
\* watchlist once the result of that refresh has been applied.
C1_WatchedSurvivesRefresh ==
    [][(\E saved \in SUBSET (1..batchSize) : applyBatch(saved)) =>
         \A k \in DOMAIN run.updates :
            LET updated == run.updates[k][1]
                after == findShow(watchlist', updated.id)
            IN after # None =>
                 \A id \in idsOf(updated.episodes) \cap obs.startWatched[k] :
                    isWatchedIn(after[1], id)]_vars

\* C2: the watched flag that a toggle, season mark or series mark set while a
\* show's episode fetch was in flight is still the flag of that episode after
\* the result of the refresh has been applied.
C2_InFlightMarksSurvive ==
    [][(\E saved \in SUBSET (1..batchSize) : applyBatch(saved)) =>
         \A k \in DOMAIN run.updates :
            LET updated == run.updates[k][1]
                before == findShow(watchlist, updated.id)
                after == findShow(watchlist', updated.id)
            IN (before # None /\ after # None) =>
                 \A id \in idsOf(updated.episodes) \cap obs.touched[k] :
                    isWatchedIn(after[1], id) = isWatchedIn(before[1], id)]_vars

\* C3: a show whose episode fetch failed during a refresh run has the same
\* episode list, watched flags, derived counts and lastUpdated in the watchlist
\* after the run has applied its results as before.
C3_FailedFetchKeepsShow ==
    [][(\E saved \in SUBSET (1..batchSize) : applyBatch(saved)) =>
         \A k \in DOMAIN run.updates :
            obs.ok[k] = Some(FALSE) =>
               findShow(watchlist', run.updates[k][1].id) = findShow(watchlist, run.updates[k][1].id)]_vars

\* C4: what the caller of the episode fetch receives after a network/HTTP
\* failure differs from what it receives when the source answers with the
\* empty list of a show that has no published episode.
C4_FailureToldFromEmpty ==
    \A k \in DOMAIN run.updates :
       (run.updates[k] # None /\ obs.ok[k] = Some(FALSE)) =>
          LET show == batchOf(run.showsToUpdate, run.i)[k]
              received == run.updates[k][1]
          IN received # updateShowWithEpisodes(show, [ok |-> TRUE, body |-> <<>>], received.lastUpdated)

\* C5: every show of the watchlist is watched exactly when it has at least one
\* episode and all its episodes are counted as watched.
C5_WatchedIffAllWatched ==
    \A n \in DOMAIN watchlist :
       watchlist[n].watched <=>
          (watchlist[n].totalEpisodes > 0
             /\ watchlist[n].watchedEpisodesCount = watchlist[n].totalEpisodes)

C5_Witness ==
    \E n \in DOMAIN watchlist :
       /\ watchlist[n].watched
       /\ watchlist[n].totalEpisodes > 1
       /\ \E j \in DOMAIN watchlist[n].episodes : watchlist[n].episodes[j].airDate = None

sumWatched(seasons) ==
    LET F[i \in 0..Len(seasons)] == IF i = 0 THEN 0 ELSE F[i - 1] + seasons[i].watchedEpisodes
    IN F[Len(seasons)]

sumTotal(seasons) ==
    LET F[i \in 0..Len(seasons)] == IF i = 0 THEN 0 ELSE F[i - 1] + seasons[i].totalEpisodes
    IN F[Len(seasons)]

\* C6: for every show of the watchlist, watchedEpisodesCount is the sum of the
\* seasons' watchedEpisodes and totalEpisodes the sum of the seasons' totalEpisodes.
C6_AggregatesAgree ==
    \A n \in DOMAIN watchlist :
       /\ watchlist[n].watchedEpisodesCount = sumWatched(watchlist[n].seasons)
       /\ watchlist[n].totalEpisodes = sumTotal(watchlist[n].seasons)

C6_Witness ==
    \E n \in DOMAIN watchlist :
       /\ Len(watchlist[n].seasons) > 1
       /\ watchlist[n].watchedEpisodesCount = 1
       /\ watchlist[n].totalEpisodes = 2

\* The derived state of show showId is rewritten by the step
recomputed(showId) ==
    /\ findShow(watchlist, showId) # None
    /\ findShow(watchlist', showId) # None
    /\ findShow(watchlist', showId) # findShow(watchlist, showId)

snapshotOf(ep) ==
    [season |-> ep.season, episode |-> ep.episode, title |-> ep.title,
     airDate |-> ep.airDate, hasNext |-> TRUE]

\* a is not after b by air date, then season, then episode number
notAfter(a, b) ==
    \/ a.airDate[1] < b.airDate[1]
    \/ a.airDate[1] = b.airDate[1] /\ a.season < b.season
    \/ a.airDate[1] = b.airDate[1] /\ a.season = b.season /\ a.episode <= b.episode

\* The next episodes the resolver may answer at time t: null when no unwatched
\* episode has aired, else the snapshot of an unwatched aired episode that no
\* other one precedes
expectedNext(episodes, t) ==
    LET due == {j \in DOMAIN episodes :
                  /\ ~episodes[j].watched
                  /\ episodes[j].airDate # None
                  /\ episodes[j].airDate[1] <= t}
    IN IF due = {} THEN {None}
       ELSE {Some(snapshotOf(episodes[j])) :
               j \in {j \in due : \A m \in due : notAfter(episodes[j], episodes[m])}}

\* C9: whenever the derived state of a show is recomputed, nextEpisode is the
\* snapshot of the unwatched aired episode with the earliest air date (then
\* season, then episode number), whatever the order of the episode list, and
\* null exactly when no unwatched episode has aired.
C9_NextIsEarliestDue ==
    [][\A s \in ShowIds :
         recomputed(s) =>
            LET show == findShow(watchlist', s)[1]
            IN show.nextEpisode \in expectedNext(show.episodes, show.lastUpdated)]_vars

bulkMark(s) ==
    \/ \E n \in SeasonNumbers, w \in BOOLEAN, saved \in BOOLEAN : markSeasonWatched(s, n, w, saved)
    \/ \E w \in BOOLEAN, saved \in BOOLEAN : markSeriesWatched(s, w, saved)

\* The step turns an episode of show s that has no air date from unwatched to watched
undatedTurnsWatched(s) ==
    /\ findShow(watchlist, s) # None
    /\ findShow(watchlist', s) # None
    /\ LET before == findShow(watchlist, s)[1]
           after == findShow(watchlist', s)[1]
       IN \E j \in DOMAIN after.episodes :
             /\ after.episodes[j].airDate = None
             /\ after.episodes[j].watched
             /\ ~isWatchedIn(before, after.episodes[j].id)

\* C10: an episode without an air date is never the episode that a
\* recomputation selects as nextEpisode, and no season or series mark turns it
\* from unwatched to watched (a step that does so is not such a mark).
C10_NoAirDateNotAired ==
    [][\A s \in ShowIds :
         /\ recomputed(s) =>
               LET show == findShow(watchlist', s)[1]
               IN /\ show.nextEpisode # None => show.nextEpisode[1].airDate # None
                  /\ findNextUnwatched(show.episodes, show.lastUpdated) # None =>
                        findNextUnwatched(show.episodes, show.lastUpdated)[1].airDate # None
         /\ undatedTurnsWatched(s) => ~bulkMark(s)]_vars

\* The state a series mark leaves behind on a show that has an episode without
\* an air date: that episode is the one left unwatched, and there is no next episode
C10_Witness ==
    \E n \in DOMAIN watchlist :
       /\ watchlist[n].nextEpisode = None
       /\ watchlist[n].watchedEpisodesCount = 1
       /\ \E j \in DOMAIN watchlist[n].episodes :
             /\ watchlist[n].episodes[j].airDate = None
             /\ ~watchlist[n].episodes[j].watched

----------------------------------------------------------------------------
(* Properties of the merge *)

byId(episodes, id) ==
    LET SameId(ep) == ep.id = id IN firstOf(SelectSeq(episodes, SameId))

\* C7: the merge of a prior list with a fresh list has exactly the episodes of
\* the fresh list, in its order; an episode whose id is in the prior list has
\* the prior watched and watchedDate and every other field from the fresh
\* list; an episode whose id is not in the prior list is unwatched; the
\* season and episode number play no part in the matching.
C7_MergeById ==
    lab.phase \in {"once", "twice"} =>
       LET merged == lab.once.episodes
           fresh == fetchEpisodeList([ok |-> TRUE, body |-> lab.fresh])
       IN /\ Len(merged) = Len(fresh)
          /\ \A i \in DOMAIN merged :
                LET old == byId(lab.prior, fresh[i].id)
                IN /\ merged[i].id = fresh[i].id
                   /\ merged[i].season = fresh[i].season
                   /\ merged[i].episode = fresh[i].episode
                   /\ merged[i].title = fresh[i].title
                   /\ merged[i].airDate = fresh[i].airDate
                   /\ old # None => /\ merged[i].watched = old[1].watched
                                    /\ merged[i].watchedDate = old[1].watchedDate
                   /\ old = None => ~merged[i].watched

\* The prior list has a watched episode whose season and number the fresh list
\* gives to another id, and whose own id comes back with other fields
C7_Witness ==
    /\ lab.phase = "once"
    /\ \E i, j \in DOMAIN lab.once.episodes, p \in DOMAIN lab.prior :
          /\ lab.prior[p].watched
          /\ lab.once.episodes[i].id = lab.prior[p].id
          /\ lab.once.episodes[i].episode # lab.prior[p].episode
          /\ lab.once.episodes[i].watched
          /\ lab.once.episodes[j].id # lab.prior[p].id
          /\ lab.once.episodes[j].episode = lab.prior[p].episode
          /\ byId(lab.prior, lab.once.episodes[j].id) = None
          /\ ~lab.once.episodes[j].watched
    /\ \E p \in DOMAIN lab.prior : byId(lab.once.episodes, lab.prior[p].id) = None

\* C8: the refresh of a show with the same fresh list twice in a row gives the
\* same episodes, watched flags, seasons, counts and watched flag as once.
C8_MergeIdempotent ==
    lab.phase = "twice" =>
       /\ lab.twice.episodes = lab.once.episodes
       /\ lab.twice.seasons = lab.once.seasons
       /\ lab.twice.totalEpisodes = lab.once.totalEpisodes
       /\ lab.twice.watchedEpisodesCount = lab.once.watchedEpisodesCount
       /\ lab.twice.watched = lab.once.watched

\* The second refresh has run on a show with a watched episode, a new
\* episode and a dropped one
C8_Witness ==
    /\ lab.phase = "twice"
    /\ lab.twice.watchedEpisodesCount = 1
    /\ lab.twice.totalEpisodes = 2
    /\ lab.twice.lastUpdated # lab.once.lastUpdated
    /\ lab.twice.episodes # lab.prior

----------------------------------------------------------------------------
(* Properties of the user operations *)

\* The air date of ep is a day on or before t
airedBy(ep, t) == ep.airDate # None /\ ep.airDate[1] <= t

\* The step is markSeasonWatched(s, n, w)
seasonMarked(s, n, w) == \E saved \in BOOLEAN : markSeasonWatched(s, n, w, saved)

\* The step is markSeriesWatched(s, w)
seriesMarked(s, w) == \E saved \in BOOLEAN : markSeriesWatched(s, w, saved)

\* The step is toggleEpisodeWatched(s, e)
toggled(s, e) == \E saved \in BOOLEAN : toggleEpisodeWatched(s, e, saved)

\* C11: after markSeasonWatched(show, n, true) every episode of season n that
\* has aired is watched, no episode of season n that has not aired was turned
\* from unwatched to watched, and the episodes of the other seasons have the
\* watched flags they had.
C11_SeasonMarkAiredOnly ==
    [][\A s \in ShowIds, n \in {1, 2} :
         seasonMarked(s, n, TRUE) =>
            LET before == findShow(watchlist, s)[1].episodes
                after == findShow(watchlist', s)[1].episodes
            IN /\ Len(after) = Len(before)
               /\ \A j \in DOMAIN before :
                     /\ after[j].id = before[j].id
                     /\ IF before[j].season = n
                        THEN /\ airedBy(before[j], now) => after[j].watched
                             /\ ~airedBy(before[j], now) => ~(after[j].watched /\ ~before[j].watched)
                        ELSE after[j].watched = before[j].watched]_vars

\* After the clock has advanced, a season holds an aired episode that is
\* watched as of now and an episode airing later that is not
C11_Witness ==
    \E n \in DOMAIN watchlist :
       /\ now > 0
       /\ watchlist[n].lastUpdated = now
       /\ \E a, b \in DOMAIN watchlist[n].episodes :
             /\ watchlist[n].episodes[a].season = watchlist[n].episodes[b].season
             /\ airedBy(watchlist[n].episodes[a], now)
             /\ watchlist[n].episodes[a].watched
             /\ watchlist[n].episodes[a].watchedDate = Some(now)
             /\ watchlist[n].episodes[b].airDate # None
             /\ ~airedBy(watchlist[n].episodes[b], now)
             /\ ~watchlist[n].episodes[b].watched

\* C12: after markSeriesWatched(show, true) every episode that has aired is
\* watched, no episode that has not aired was turned from unwatched to
\* watched, and the show is watched only if none of its episodes is unaired.
C12_SeriesMarkAiredOnly ==
    [][\A s \in ShowIds :
         seriesMarked(s, TRUE) =>
            LET before == findShow(watchlist, s)[1].episodes
                show == findShow(watchlist', s)[1]
                after == show.episodes
            IN /\ Len(after) = Len(before)
               /\ \A j \in DOMAIN before :
                     /\ after[j].id = before[j].id
                     /\ airedBy(before[j], now) => after[j].watched
                     /\ ~airedBy(before[j], now) => ~(after[j].watched /\ ~before[j].watched)
               /\ show.watched => \A j \in DOMAIN after : airedBy(after[j], now)]_vars

\* A show marked as of now whose aired episodes are all watched and that is
\* not watched, because an episode airs later
C12_Witness ==
    \E n \in DOMAIN watchlist :
       /\ now > 0
       /\ watchlist[n].lastUpdated = now
       /\ ~watchlist[n].watched
       /\ watchlist[n].watchedEpisodesCount > 0
       /\ \A j \in DOMAIN watchlist[n].episodes :
             airedBy(watchlist[n].episodes[j], now) <=> watchlist[n].episodes[j].watched
       /\ \E j \in DOMAIN watchlist[n].episodes :
             watchlist[n].episodes[j].airDate # None /\ ~airedBy(watchlist[n].episodes[j], now)

\* C13: after markSeasonWatched(show, n, false) every episode of season n is
\* unwatched and has no watchedDate; after markSeriesWatched(show, false)
\* every episode is, and the show is not watched; the air dates play no part.
C13_UnmarkClearsAll ==
    [][\A s \in ShowIds :
         /\ \A n \in {1, 2} :
               seasonMarked(s, n, FALSE) =>
                  LET after == findShow(watchlist', s)[1].episodes
                  IN \A j \in DOMAIN after :
                        after[j].season = n => (~after[j].watched /\ after[j].watchedDate = None)
         /\ seriesMarked(s, FALSE) =>
               LET show == findShow(watchlist', s)[1]
               IN /\ ~show.watched
                  /\ show.watchedEpisodesCount = 0
                  /\ \A j \in DOMAIN show.episodes :
                        ~show.episodes[j].watched /\ show.episodes[j].watchedDate = None]_vars

\* Every episode of a show is unwatched with no watchedDate as of now, one of
\* them has not aired, and the row last written for the show still counts a
\* watched episode
C13_Witness ==
    \E n \in DOMAIN watchlist :
       /\ now > 0
       /\ watchlist[n].lastUpdated = now
       /\ ~watchlist[n].watched
       /\ Len(watchlist[n].episodes) > 1
       /\ \A j \in DOMAIN watchlist[n].episodes :
             ~watchlist[n].episodes[j].watched /\ watchlist[n].episodes[j].watchedDate = None
       /\ \E j \in DOMAIN watchlist[n].episodes : ~airedBy(watchlist[n].episodes[j], now)
       /\ db[watchlist[n].id] # None
       /\ db[watchlist[n].id][1].watchedEpisodesCount > 0
       /\ idsOf(db[watchlist[n].id][1].episodes.json) = idsOf(watchlist[n].episodes)

\* C14: toggleEpisodeWatched(show, e) flips the watched flag of episode e,
\* gives it the watchedDate now if it became watched and none otherwise,
\* leaves the other episodes as they were, and the show then has the seasons,
\* watchedEpisodesCount, nextEpisode and watched of the resulting list and
\* the lastUpdated now.
C14_ToggleOneEpisode ==
    [][\A s \in ShowIds, e \in 1..MaxOpsLen :
         toggled(s, e) =>
            LET before == findShow(watchlist, s)[1].episodes
                show == findShow(watchlist', s)[1]
                after == show.episodes
                watchedAt == {j \in DOMAIN after : after[j].watched}
                due == {j \in DOMAIN after : ~after[j].watched /\ airedBy(after[j], now)}
            IN /\ Len(after) = Len(before)
               /\ \A j \in DOMAIN before :
                     IF before[j].id = e
                     THEN /\ after[j].watched = ~before[j].watched
                          /\ after[j].watchedDate = IF after[j].watched THEN Some(now) ELSE None
                          /\ [after[j] EXCEPT !.watched = before[j].watched,
                                              !.watchedDate = before[j].watchedDate] = before[j]
                     ELSE after[j] = before[j]
               /\ show.watchedEpisodesCount = Cardinality(watchedAt)
               /\ show.watched <=> (after # <<>> /\ watchedAt = DOMAIN after)
               /\ show.lastUpdated = now
               /\ IF due = {} THEN show.nextEpisode = None
                  ELSE \E j \in due : show.nextEpisode = Some(snapshotOf(after[j]))
               /\ {show.seasons[k].number : k \in DOMAIN show.seasons} = {after[j].season : j \in DOMAIN after}
               /\ \A k \in DOMAIN show.seasons :
                     LET members == {j \in DOMAIN after : after[j].season = show.seasons[k].number}
                     IN /\ Range(show.seasons[k].episodes) = {after[j] : j \in members}
                        /\ show.seasons[k].totalEpisodes = Cardinality(members)
                        /\ show.seasons[k].watchedEpisodes = Cardinality(members \cap watchedAt)]_vars

\* An episode that airs later is watched since now, the other episode of the
\* show is not, and the show counts one watched episode
C14_Witness ==
    \E n \in DOMAIN watchlist :
       /\ now > 0
       /\ watchlist[n].lastUpdated = now
       /\ watchlist[n].watchedEpisodesCount = 1
       /\ Len(watchlist[n].episodes) = 2
       /\ \E j \in DOMAIN watchlist[n].episodes :
             /\ watchlist[n].episodes[j].airDate # None
             /\ ~airedBy(watchlist[n].episodes[j], now)
             /\ watchlist[n].episodes[j].watched
             /\ watchlist[n].episodes[j].watchedDate = Some(now)

----------------------------------------------------------------------------
(* Properties of the refresh jobs *)

\* The fetches of the client's run that have not answered yet
inFlight(r) ==
    IF r.pc = "fetching" THEN {k \in DOMAIN r.updates : r.updates[k] = None} ELSE {}

\* The updateSingleShow calls of the service's job that have not settled yet
serviceInFlight(sv) == IF sv.pc = "running" THEN sv.pending ELSE {}

\* C15: at most batchSize fetches of a client run and at most
\* serviceBatchSize of the service's job are in flight at any time, and a run
\* moves on to its next batch only when no fetch of the current one is in flight.
C15_BatchesSequential ==
    /\ [](/\ Cardinality(inFlight(run)) <= batchSize
          /\ Cardinality(serviceInFlight(service)) <= serviceBatchSize)
    /\ [][/\ (run'.pc = "fetching" /\ run'.i # run.i) => inFlight(run) = {}
          /\ (service'.pc = "running" /\ service.pc # "idle" /\ service'.i # service.i)
                => serviceInFlight(service) = {}]_vars

\* The second batch of a client run is in flight
C15_Witness ==
    /\ run.pc = "fetching"
    /\ run.i = batchSize
    /\ inFlight(run) # {}

\* C16: when the job has returned from a run over n stale shows in which the
\* episode fetch failed for k of them (and no database call rejected),
\* updatedCount is n - k and errorCount is k, every show whose fetch succeeded
\* has a new lastApiUpdate, and the shows whose fetch failed are as they were.
C16_CountsFailedFetches ==
    (service.pc = "returned" /\ service.prismaFailed = {}) =>
       LET n == Len(service.showsToUpdate)
           k == Cardinality(service.fetchFailed)
       IN /\ service.updatedCount = n - k
          /\ service.errorCount = k
          /\ \A id \in Range(service.showsToUpdate) :
                IF id \in service.fetchFailed
                THEN service.shows[id] = service.before[id]
                ELSE service.shows[id].lastApiUpdate = now

----------------------------------------------------------------------------
(* Properties of the refresh against the watchlist and the store *)

\* The step starts a run of updateShowsDaily
runStarts == run.pc = "idle" /\ run'.pc = "fetching"

\* The step applies the results of the batch in flight
batchApplied == run.pc = "fetching" /\ run'.pc # "fetching"

\* The step applies the answer of the background fetch that followed the add of show s
addFetchAnswered(s) == \E item \in addFetch \ addFetch' : item.id = s

\* C17: the shows a run takes up are exactly the shows of the watchlist, as
\* it is when the run starts, whose lastUpdated is more than a day old.
C17_RunTakesStaleShows ==
    [][runStarts =>
         {run'.showsToUpdate[j].id : j \in DOMAIN run'.showsToUpdate}
            = {watchlist[n].id : n \in {n \in DOMAIN watchlist : watchlist[n].lastUpdated < now - OneDay}}]_vars

C19_RecomputationIsWritten ==
    [][\A s \in ShowIds :
         recomputed(s) =>
            /\ failedWrites' \in {failedWrites, failedWrites + 1}
            /\ \/ failedWrites' = failedWrites + 1
               \/ db[s] = None
               \/ db'[s] = Some(serializeShow(findShow(watchlist', s)[1]))]_vars

\* The row of a show with a watched episode is the serialized show of the watchlist
C19_Witness ==
    \E n \in DOMAIN watchlist :
       /\ watchlist[n].watchedEpisodesCount > 0
       /\ db[watchlist[n].id] = Some(serializeShow(watchlist[n]))

\* C20: a step whose write to the store fails leaves the store as it was and
\* the watchlist as the operation made it: the added show is in it, the
\* removed show is not, the toggled episode has its flag flipped, the marked
\* season or series has its aired episodes watched (its episodes unwatched
\* for an unmark), the refreshed show is the result of the refresh; and the
\* run that applied the batch goes on.
C20_FailedWriteNoRollback ==
    [][failedWrites' > failedWrites =>
         /\ \A s \in ShowIds :
               /\ (\E ne \in SearchNextEpisodes : addToWatchlist(s, ne, FALSE)) =>
                     (inList(watchlist', s) /\ db' = db)
               /\ removeFromWatchlist(s, FALSE) => (~inList(watchlist', s) /\ db' = db)
               /\ \A e \in EpisodeIds :
                     toggleEpisodeWatched(s, e, FALSE) =>
                        /\ (e \in watchedIds(watchlist', s)) # (e \in watchedIds(watchlist, s))
                        /\ db' = db
               /\ \A n \in SeasonNumbers, w \in BOOLEAN :
                     markSeasonWatched(s, n, w, FALSE) =>
                        /\ db' = db
                        /\ LET after == findShow(watchlist', s)[1].episodes
                           IN \A j \in DOMAIN after :
                                 after[j].season = n => (after[j].watched <=> (w /\ airedBy(after[j], now)))
               /\ \A w \in BOOLEAN :
                     markSeriesWatched(s, w, FALSE) =>
                        /\ db' = db
                        /\ LET after == findShow(watchlist', s)[1].episodes
                           IN \A j \in DOMAIN after : after[j].watched <=> (w /\ airedBy(after[j], now))
               /\ \A o \in FetchOutcomes :
                     (addFetchDone(s, o, FALSE) /\ inList(watchlist, s)) =>
                        /\ db' = db
                        /\ findShow(watchlist', s)[1].lastUpdated = now
                        /\ idsOf(findShow(watchlist', s)[1].episodes) = idsOf(fetchEpisodeList(o))
         /\ batchApplied =>
               /\ run'.pc \in {"idle", "delay"}
               /\ \A k \in DOMAIN run.updates :
                     inList(watchlist, run.updates[k][1].id) =>
                        findShow(watchlist', run.updates[k][1].id) = Some(run.updates[k][1])]_vars

\* The store has no row for a show that is in the watchlist with its
\* episodes, or still has the row of a show that is not: a write has failed
C20_Witness ==
    /\ failedWrites > 0
    /\ \/ \E n \in DOMAIN watchlist :
             /\ db[watchlist[n].id] = None
             /\ watchlist[n].watchedEpisodesCount > 0
       \/ \E s \in ShowIds : ~inList(watchlist, s) /\ db[s] # None

----------------------------------------------------------------------------
(* Properties of the retry of a failed write *)

\* C21: once a write for a show has failed, the write of the next mutation of
\* that show carries the full show and, when it succeeds, leaves the stored
\* show equal to the show of the watchlist: a step that rewrites a show and
\* whose request does not fail ends with the row being the serialized show.
C21_LaterWriteRepairsStore ==
    [][\A s \in ShowIds :
         (recomputed(s) /\ failedWrites > 0 /\ failedWrites' = failedWrites) =>
            db'[s] = Some(serializeShow(findShow(watchlist', s)[1]))]_vars

----------------------------------------------------------------------------
(* The season aggregator taken on its own: an episode list in any order,    *)
(* with any season and episode numbers, and its seasons                     *)

MaxSeasonsLen == 3

\* The season numbers of the listings: two seasons, and two numbers that are
\* no season number
AggSeasonNumbers == {-2, -1, 1, 2}
AggEpisodeNumbers == {1, 2, 3}

\* The lists of at most MaxSeasonsLen episodes, the k-th with id k
AggEpisodeLists ==
    UNION {[1..n -> [season : AggSeasonNumbers, episode : AggEpisodeNumbers, watched : BOOLEAN]] :
              n \in 0..MaxSeasonsLen}

aggEpisodes(l) ==
    [k \in 1..Len(l) |->
        [id |-> k, season |-> l[k].season, episode |-> l[k].episode, title |-> "a",
         airDate |-> Some(0), watched |-> l[k].watched,
         watchedDate |-> IF l[k].watched THEN Some(0) ELSE None]]

AggInit ==
    /\ watchlist = <<>>
    /\ closureWatchlist = <<>>
    /\ now = 0
    /\ addFetch = {}
    /\ timers = TimersOff
    /\ hist = HistOff
    /\ run = IdleRun
    /\ db = [s \in ShowIds |-> None]
    /\ failedWrites = 0
    /\ obs = NoObs
    /\ service = ServiceOff
    /\ \E l \in AggEpisodeLists :
          lab = [phase |-> "episodes", episodes |-> aggEpisodes(l), seasons |-> <<>>]

\* const seasons = organizeEpisodesIntoSeasons(episodes)
aggOrganize ==
    /\ lab.phase = "episodes"
    /\ lab' = [lab EXCEPT !.phase = "seasons",
                          !.seasons = organizeEpisodesIntoSeasons(lab.episodes)]
    /\ UNCHANGED <<watchlist, closureWatchlist, now, addFetch, run, db, failedWrites, obs, service, timers, hist>>

AggNext == aggOrganize

SpecSeasons == AggInit /\ [][AggNext]_vars

----------------------------------------------------------------------------
(* Properties of the season aggregator *)

\* C22: whatever the order of the input, the seasons come out by ascending
\* season number, the episodes of each season by ascending episode number,
\* and each season's totalEpisodes and watchedEpisodes are the number of its
\* episodes and of its watched episodes.
C22_SeasonsSortedAndCounted ==
    lab.phase = "seasons" =>
       /\ \A k \in 1..(Len(lab.seasons) - 1) : lab.seasons[k].number < lab.seasons[k + 1].number
       /\ \A k \in DOMAIN lab.seasons :
             LET s == lab.seasons[k]
             IN /\ \A j \in 1..(Len(s.episodes) - 1) : s.episodes[j].episode <= s.episodes[j + 1].episode
                /\ \A j \in DOMAIN s.episodes : s.episodes[j].season = s.number
                /\ s.totalEpisodes = Len(s.episodes)
                /\ s.watchedEpisodes = Cardinality({j \in DOMAIN s.episodes : s.episodes[j].watched})

\* Two seasons given in descending order, the episodes of one given in
\* descending order, one of them watched
C22_Witness ==
    /\ lab.phase = "seasons"
    /\ Len(lab.episodes) = 3
    /\ lab.episodes[1].season > lab.episodes[2].season
    /\ lab.episodes[2].season = lab.episodes[3].season
    /\ lab.episodes[2].episode > lab.episodes[3].episode
    /\ Len(lab.seasons) = 2
    /\ lab.seasons[1].watchedEpisodes = 1
    /\ lab.seasons[1].totalEpisodes = 2

\* A season number as the listings number seasons: from 1 up
isSeasonNumber(n) == n >= 1

\* The seasons of the output that hold the input episode ep
seasonsHolding(ep) ==
    {k \in DOMAIN lab.seasons : \E j \in DOMAIN lab.seasons[k].episodes : lab.seasons[k].episodes[j] = ep}

\* C23: every input episode is in exactly one output season, the episodes
\* whose season number is missing or invalid are all in one and the same
\* season, and the watched episodes counted by the seasons are the watched
\* episodes of the input.
C23_NoEpisodeDropped ==
    lab.phase = "seasons" =>
       /\ \A i \in DOMAIN lab.episodes : Cardinality(seasonsHolding(lab.episodes[i])) = 1
       /\ \A i, j \in DOMAIN lab.episodes :
             (~isSeasonNumber(lab.episodes[i].season) /\ ~isSeasonNumber(lab.episodes[j].season)) =>
                seasonsHolding(lab.episodes[i]) = seasonsHolding(lab.episodes[j])
       /\ sumWatched(lab.seasons) = Cardinality({i \in DOMAIN lab.episodes : lab.episodes[i].watched})

----------------------------------------------------------------------------
(* The add of a show taken on its own: the show is added, its background    *)
(* fetch answers with a listing whose episodes may all be still to air, the *)
(* user toggles and removes                                                 *)

\* The listings of the source for a show being added: no episode; two
\* episodes that air later; one episode with no air date yet; an episode
\* that airs on day 0 and one that airs later
AddSourceLists ==
    { <<>>,
      << RawEpisode(1, 1, 1, "a", Some(OneDay)), RawEpisode(2, 1, 2, "a", Some(MaxTime)) >>,
      << RawEpisode(1, 1, 1, "a", None) >>,
      << RawEpisode(1, 1, 1, "a", Some(0)), RawEpisode(2, 1, 2, "a", Some(MaxTime)) >> }

AddOutcomes ==
    {[ok |-> TRUE, body |-> l] : l \in AddSourceLists} \cup {[ok |-> FALSE, body |-> <<>>]}

AddNext ==
    \/ Tick
    \/ \E s \in ShowIds, ne \in SearchNextEpisodes, saved \in BOOLEAN : addToWatchlist(s, ne, saved)
    \/ \E s \in ShowIds, o \in AddOutcomes, saved \in BOOLEAN : addFetchDone(s, o, saved)
    \/ \E s \in ShowIds, saved \in BOOLEAN : removeFromWatchlist(s, saved)
    \/ \E s \in ShowIds, e \in {1, 2}, saved \in BOOLEAN : toggleEpisodeWatched(s, e, saved)

SpecAdd == Init /\ [][AddNext]_vars

----------------------------------------------------------------------------
(* Properties of the add of a show *)

\* The listing of outcome o has an episode, and none that has aired by time t
noneAired(o, t) ==
    /\ o.ok
    /\ Len(o.body) > 0
    /\ \A j \in DOMAIN o.body : ~hasAired(o.body[j].airdate, t)

\* C24: the show that addToWatchlist puts into the watchlist has
\* totalEpisodes = 0 and watched = false; when the background fetch of the
\* add answers with n > 0 episodes none of which has aired, the show (if it
\* is still in the watchlist) has totalEpisodes = n, watchedEpisodesCount = 0,
\* watched = false and nextEpisode = null.
C24_AddThenFirstFetch ==
    [][\A s \in ShowIds :
         /\ (~inList(watchlist, s) /\ inList(watchlist', s)) =>
               /\ findShow(watchlist', s)[1].totalEpisodes = 0
               /\ findShow(watchlist', s)[1].watched = FALSE
         /\ (addFetchAnswered(s) /\ inList(watchlist', s)) =>
               \A o \in AddOutcomes, saved \in BOOLEAN :
                  (noneAired(o, now) /\ addFetchDone(s, o, saved)) =>
                     /\ findShow(watchlist', s)[1].totalEpisodes = Len(o.body)
                     /\ findShow(watchlist', s)[1].watchedEpisodesCount = 0
                     /\ findShow(watchlist', s)[1].watched = FALSE
                     /\ findShow(watchlist', s)[1].nextEpisode = None]_vars

\* The show was added with the next-episode marker of its search result, its
\* fetch has answered with two episodes that have not aired, and the clock
\* has not reached the air date of either
C24_Witness ==
    /\ addFetch = {}
    /\ \E n \in DOMAIN watchlist :
          /\ watchlist[n].totalEpisodes = 2
          /\ watchlist[n].lastUpdated = now
          /\ \A j \in DOMAIN watchlist[n].episodes : ~hasAired(watchlist[n].episodes[j].airDate, now)
          /\ watchlist[n].nextEpisode = None
          /\ watchlist[n].watchedEpisodesCount = 0

----------------------------------------------------------------------------
(* The store taken on its own: a show is saved by POST /api/watchlist and   *)
(* the watchlist is loaded back by GET /api/watchlist                       *)

\* JSON.parse: the value of a text.  A property whose value is undefined is
\* left out of the text and read back as undefined: both are <<>> here
fromJson(text) == text.json

\* deserializeShow with the watched column compared to true instead of 1
deserializeShow_WatchedAsTrue(row) ==
    [id |-> row.id,
     watched |-> FALSE,
     seasons |-> fromJson(row.seasons),
     episodes |-> fromJson(row.episodes),
     totalEpisodes |-> row.totalEpisodes,
     watchedEpisodesCount |-> row.watchedEpisodesCount,
     lastUpdated |-> row.lastUpdated,
     expandedSeasons |-> fromJson(row.expandedSeasons),
     nextEpisode |-> fromJson(row.nextEpisode)]

\* deserializeShow: the show of a row.  The text columns of a row written by
\* serializeShow are never NULL, so the || '[]' and || 'null' defaults are
\* not taken
deserializeShow(row) ==
    [id |-> row.id,
     watched |-> (row.watched = 1),
     seasons |-> fromJson(row.seasons),
     episodes |-> fromJson(row.episodes),
     totalEpisodes |-> row.totalEpisodes,
     watchedEpisodesCount |-> row.watchedEpisodesCount,
     lastUpdated |-> row.lastUpdated,
     expandedSeasons |-> fromJson(row.expandedSeasons),
     nextEpisode |-> fromJson(row.nextEpisode)]

\* GET /api/watchlist: rows.map(deserializeShow)
loadWatchlist(table) ==
    LET ids == SetToSortedSeq({s \in DOMAIN table : table[s] # None})
    IN [k \in 1..Len(ids) |-> deserializeShow(table[ids[k]][1])]

StoreInit ==
    /\ watchlist = <<>>
    /\ closureWatchlist = <<>>
    /\ now = 0
    /\ addFetch = {}
    /\ timers = TimersOff
    /\ hist = HistOff
    /\ run = IdleRun
    /\ db = [s \in ShowIds |-> None]
    /\ failedWrites = 0
    /\ obs = NoObs
    /\ service = ServiceOff
    /\ \E show \in {labShow(opsEpisodes(l)) : l \in OpsEpisodeLists}
                      \cup {newItem(1, ne, 0) : ne \in SearchNextEpisodes} :
          lab = [phase |-> "show", show |-> show, loaded |-> <<>>]

\* apiClient.saveShow(show), answered with success
storeSave ==
    /\ lab.phase = "show"
    /\ db' = saveShow(db, lab.show, TRUE)
    /\ lab' = [lab EXCEPT !.phase = "saved"]
    /\ UNCHANGED <<watchlist, closureWatchlist, now, addFetch, run, failedWrites, obs, service, timers, hist>>

\* apiClient.loadWatchlist()
storeLoad ==
    /\ lab.phase = "saved"
    /\ lab' = [lab EXCEPT !.phase = "loaded", !.loaded = loadWatchlist(db)]
    /\ UNCHANGED <<watchlist, closureWatchlist, now, addFetch, run, db, failedWrites, obs, service, timers, hist>>

StoreNext == storeSave \/ storeLoad

SpecStore == StoreInit /\ [][StoreNext]_vars

----------------------------------------------------------------------------
(* Properties of the persistence round trip *)

----------------------------------------------------------------------------
(* A tracked show taken on its own: the watchlist was loaded with one show  *)
(* that has episodes, some of them watched; the user toggles and marks and  *)
(* the scheduled refresh runs                                               *)

\* The shows the watchlist may be loaded with: the episodes of a listing of
\* the source, each unwatched or watched since day 0
WatchShows ==
    UNION {{labShow([k \in 1..Len(l) |->
                        [fetchEpisodeList([ok |-> TRUE, body |-> l])[k] EXCEPT
                            !.watched = w[k].watched, !.watchedDate = w[k].watchedDate]]) :
               w \in [1..Len(l) -> LabWatchStates]} : l \in SourceLists}

WatchInit ==
    /\ \E show \in WatchShows :
          /\ watchlist = <<show>>
          /\ db = [s \in ShowIds |-> IF s = show.id THEN Some(serializeShow(show)) ELSE None]
    /\ closureWatchlist = watchlist
    /\ now = 0
    /\ addFetch = {}
    /\ timers = TimersOff
    /\ hist = HistOff
    /\ run = IdleRun
    /\ failedWrites = 0
    /\ obs = NoObs
    /\ lab = LabOff
    /\ service = ServiceOff

WatchNext ==
    \/ Tick
    \/ \E s \in ShowIds, e \in EpisodeIds, saved \in BOOLEAN : toggleEpisodeWatched(s, e, saved)
    \/ \E s \in ShowIds, n \in SeasonNumbers, w \in BOOLEAN, saved \in BOOLEAN :
          markSeasonWatched(s, n, w, saved)
    \/ \E s \in ShowIds, w \in BOOLEAN, saved \in BOOLEAN : markSeriesWatched(s, w, saved)
    \/ startDailyUpdate
    \/ \E k \in 1..batchSize, o \in FetchOutcomes : batchFetchDone(k, o)
    \/ \E saved \in SUBSET (1..batchSize) : applyBatch(saved)

SpecWatch == WatchInit /\ [][WatchNext]_vars

----------------------------------------------------------------------------
(* Properties of the watch state of the episodes *)

\* C26: in every state of the watchlist, an episode that has a watchedDate
\* is watched, in the episode list of its show and in the show's seasons.
C26_DatedImpliesWatched ==
    \A n \in DOMAIN watchlist :
       /\ \A j \in DOMAIN watchlist[n].episodes :
             watchlist[n].episodes[j].watchedDate # None => watchlist[n].episodes[j].watched
       /\ \A k \in DOMAIN watchlist[n].seasons :
             \A j \in DOMAIN watchlist[n].seasons[k].episodes :
                watchlist[n].seasons[k].episodes[j].watchedDate # None =>
                   watchlist[n].seasons[k].episodes[j].watched

\* An episode was marked watched on one day and its show was rewritten on a
\* later day, by a toggle, a bulk mark or a refresh that kept the mark
C26_Witness ==
    \E n \in DOMAIN watchlist :
       \E j \in DOMAIN watchlist[n].episodes :
          /\ watchlist[n].episodes[j].watchedDate # None
          /\ watchlist[n].episodes[j].watchedDate[1] < watchlist[n].lastUpdated
          /\ watchlist[n].episodes[j].watched

----------------------------------------------------------------------------
(* Properties of the delay between the batches *)

\* The batch that the client's run is fetching holds the last show of the run
lastBatch(r) == r.i + Len(r.updates) = Len(r.showsToUpdate)

\* The batch that the service's job is working on holds the last show of the job
serviceLastBatch(sv) ==
    sv.i + Len(serviceBatchOf(sv.showsToUpdate, sv.i)) = Len(sv.showsToUpdate)

\* C27: when a batch of a refresh run is complete, the run takes the delay
\* step if shows are left and ends without a delay if the batch was the last
\* one; a batch after the first starts only out of the delay step.  This for
\* the client's run and for the service's job.
C27_DelayBetweenBatches ==
    [][/\ batchApplied => run'.pc = (IF lastBatch(run) THEN "idle" ELSE "delay")
       /\ (run'.pc = "fetching" /\ run'.i # run.i) =>
             (run.pc = "delay" /\ run'.i = run.i + batchSize)
       /\ (service.pc = "running" /\ service'.pc # "running") =>
             service'.pc = (IF serviceLastBatch(service) THEN "returned" ELSE "delay")
       /\ (service'.pc = "running" /\ service.pc # "idle" /\ service'.i # service.i) =>
             (service.pc = "delay" /\ service'.i = service.i + serviceBatchSize)]_vars

\* The client's run is in the delay after its first batch, with a show left
C27_Witness ==
    /\ run.pc = "delay"
    /\ run.i = 0
    /\ Len(run.showsToUpdate) > batchSize

----------------------------------------------------------------------------
(* The routes of the multi-user backend, for one user and one show: the     *)
(* Show and Episode rows, the user's UserShow row and UserEpisode rows, and *)
(* the watchlist last answered by GET /api/watchlist                        *)

\* findMany ... orderBy [{season: 'asc'}, {episode: 'asc'}]
orderBySeasonEpisode(rows) ==
    LET Before(i, j) ==
            \/ rows[i].season < rows[j].season
            \/ rows[i].season = rows[j].season /\ rows[i].episode < rows[j].episode
            \/ rows[i].season = rows[j].season /\ rows[i].episode = rows[j].episode /\ i < j
        pos(i) == Cardinality({j \in DOMAIN rows : Before(j, i)}) + 1
    IN [p \in 1..Len(rows) |-> rows[CHOOSE i \in DOMAIN rows : pos(i) = p]]

\* A UserEpisode row, or the UserShow columns, as a mark writes them at time t
markedAt(watched, t) == [watched |-> watched, watchedDate |-> IF watched THEN Some(t) ELSE None]

\* The response of GET /api/watchlist: the user's shows transformed
transformedWatchlist(sv, t) ==
    IF sv.userShow = None THEN <<>>
    ELSE LET rows == orderBySeasonEpisode(sv.show[1])
             episodes ==
                 [i \in 1..Len(rows) |->
                     LET userEpisode == sv.userEpisodes[rows[i].id]
                     IN [id |-> rows[i].id, season |-> rows[i].season, episode |-> rows[i].episode,
                         title |-> rows[i].title, airDate |-> rows[i].airDate,
                         watched |-> IF userEpisode = None THEN FALSE ELSE userEpisode[1].watched,
                         watchedDate |-> IF userEpisode = None THEN None ELSE userEpisode[1].watchedDate]]
         IN << [id |-> 1,
                watched |-> sv.userShow[1].watched,
                seasons |-> organizeEpisodesIntoSeasons(episodes),
                episodes |-> episodes,
                totalEpisodes |-> Len(episodes),
                watchedEpisodesCount |-> watchedCountOf(episodes),
                nextEpisode |-> nextEpisodeOf(episodes, t)] >>

RoutesInit ==
    /\ watchlist = <<>>
    /\ closureWatchlist = <<>>
    /\ now = 0
    /\ addFetch = {}
    /\ timers = TimersOff
    /\ hist = HistOff
    /\ run = IdleRun
    /\ db = [s \in ShowIds |-> None]
    /\ failedWrites = 0
    /\ obs = NoObs
    /\ lab = LabOff
    /\ service = [pc |-> "routes", show |-> None, userShow |-> None,
                  userEpisodes |-> [e \in EpisodeIds |-> None], response |-> <<>>]

\* POST /api/watchlist: the show and its episodes are created from the
\* source if the show is not in the database, then the UserShow row
postWatchlist(outcome) ==
    /\ service.userShow = None
    /\ service' = [service EXCEPT
          !.show = IF service.show = None THEN Some(fetchEpisodesFromTvmaze(outcome)) ELSE service.show,
          !.userShow = Some([watched |-> FALSE, watchedDate |-> None])]
    /\ UNCHANGED <<watchlist, closureWatchlist, now, addFetch, run, db, failedWrites, obs, lab, timers, hist>>

\* DELETE /api/watchlist/:showId
deleteWatchlist ==
    /\ service.userShow # None
    /\ service' = [service EXCEPT
          !.userShow = None,
          !.userEpisodes = [e \in EpisodeIds |-> None]]
    /\ UNCHANGED <<watchlist, closureWatchlist, now, addFetch, run, db, failedWrites, obs, lab, timers, hist>>

\* PUT /api/watchlist/:showId/watched
putShowWatched(watched) ==
    /\ service.userShow # None
    /\ service' = [service EXCEPT
          !.userShow = Some(markedAt(watched, now)),
          !.userEpisodes = [e \in EpisodeIds |->
              IF \E i \in DOMAIN service.show[1] : service.show[1][i].id = e
              THEN Some(markedAt(watched, now)) ELSE service.userEpisodes[e]]]
    /\ UNCHANGED <<watchlist, closureWatchlist, now, addFetch, run, db, failedWrites, obs, lab, timers, hist>>

\* PUT /api/episodes/:episodeId/watched
putEpisodeWatched(episodeId, watched) ==
    /\ service.show # None
    /\ \E i \in DOMAIN service.show[1] : service.show[1][i].id = episodeId
    /\ service.userShow # None
    /\ service' = [service EXCEPT !.userEpisodes[episodeId] = Some(markedAt(watched, now))]
    /\ UNCHANGED <<watchlist, closureWatchlist, now, addFetch, run, db, failedWrites, obs, lab, timers, hist>>

\* PUT /api/episodes/season/:showId/:seasonNumber/watched
putSeasonWatched(seasonNumber, watched) ==
    /\ service.userShow # None
    /\ service' = [service EXCEPT
          !.userEpisodes = [e \in EpisodeIds |->
              IF \E i \in DOMAIN service.show[1] :
                    service.show[1][i].id = e /\ service.show[1][i].season = seasonNumber
              THEN Some(markedAt(watched, now)) ELSE service.userEpisodes[e]]]
    /\ UNCHANGED <<watchlist, closureWatchlist, now, addFetch, run, db, failedWrites, obs, lab, timers, hist>>

\* GET /api/watchlist
getWatchlist ==
    /\ service' = [service EXCEPT !.response = transformedWatchlist(service, now)]
    /\ UNCHANGED <<watchlist, closureWatchlist, now, addFetch, run, db, failedWrites, obs, lab, timers, hist>>

RoutesNext ==
    \/ Tick
    \/ \E o \in FetchOutcomes : postWatchlist(o)
    \/ deleteWatchlist
    \/ \E w \in BOOLEAN : putShowWatched(w)
    \/ \E e \in EpisodeIds, w \in BOOLEAN : putEpisodeWatched(e, w)
    \/ \E n \in SeasonNumbers, w \in BOOLEAN : putSeasonWatched(n, w)
    \/ getWatchlist

SpecRoutes == RoutesInit /\ [][RoutesNext]_vars

----------------------------------------------------------------------------
(* Properties of the routes of the multi-user backend *)

\* C28: every show of a watchlist answered by GET /api/watchlist has
\* watched = true if and only if its totalEpisodes is above 0 and its
\* watchedEpisodesCount equals its totalEpisodes.
C28_RouteWatchedIffAllWatched ==
    \A k \in DOMAIN service.response :
       service.response[k].watched <=>
          /\ service.response[k].totalEpisodes > 0
          /\ service.response[k].watchedEpisodesCount = service.response[k].totalEpisodes

----------------------------------------------------------------------------
(* The expansion of the seasons in the list: a watchlist of several tracked *)
(* shows whose seasons the user expands and collapses between toggles       *)

MaxExpandShows == 2

\* toggleSeasonExpansion without the test of the show's id
toggleSeasonExpansion_EveryShow(showId, seasonNumber) ==
    /\ inList(watchlist, showId)
    /\ watchlist' =
          [k \in 1..Len(watchlist) |->
              LET show == watchlist[k]
                  currentExpanded == show.expandedSeasons
                  Other(s) == s # seasonNumber
              IN [show EXCEPT !.expandedSeasons =
                     IF seasonNumber \in Range(currentExpanded)
                     THEN SelectSeq(currentExpanded, Other)
                     ELSE Append(currentExpanded, seasonNumber)]]
    /\ UNCHANGED <<closureWatchlist, now, addFetch, run, db, failedWrites, obs, lab, service, timers, hist>>

\* toggleSeasonExpansion: the season is taken out of the show's
\* expandedSeasons if it is in it, appended if not; nothing is sent to the
\* backend
toggleSeasonExpansion(showId, seasonNumber) ==
    /\ inList(watchlist, showId)
    /\ watchlist' =
          [k \in 1..Len(watchlist) |->
              LET show == watchlist[k]
                  currentExpanded == show.expandedSeasons
                  Other(s) == s # seasonNumber
              IN IF show.id = showId
                 THEN [show EXCEPT !.expandedSeasons =
                          IF seasonNumber \in Range(currentExpanded)
                          THEN SelectSeq(currentExpanded, Other)
                          ELSE Append(currentExpanded, seasonNumber)]
                 ELSE show]
    /\ UNCHANGED <<closureWatchlist, now, addFetch, run, db, failedWrites, obs, lab, service, timers, hist>>

\* The watchlist was loaded with one to MaxExpandShows tracked shows
ExpandInit ==
    /\ \E n \in 1..MaxExpandShows :
          /\ watchlist = [id \in 1..n |-> trackedShow(id)]
          /\ db = [id \in 1..n |-> Some(serializeShow(trackedShow(id)))]
    /\ closureWatchlist = watchlist
    /\ now = 0
    /\ addFetch = {}
    /\ timers = TimersOff
    /\ hist = HistOff
    /\ run = IdleRun
    /\ failedWrites = 0
    /\ obs = NoObs
    /\ lab = LabOff
    /\ service = ServiceOff

ExpandNext ==
    \/ \E s \in 1..MaxExpandShows, n \in SeasonNumbers : toggleSeasonExpansion(s, n)
    \/ \E s \in 1..MaxExpandShows, e \in EpisodeIds : toggleEpisodeWatched(s, e, TRUE)

SpecExpand == ExpandInit /\ [][ExpandNext]_vars

----------------------------------------------------------------------------
(* Properties of the expansion of the seasons *)

\* C29: toggleSeasonExpansion(show, s) changes only the expandedSeasons of
\* that show: its episodes, seasons, totalEpisodes, watchedEpisodesCount,
\* nextEpisode, watched and lastUpdated are as before, every other show is
\* as before, and so is the order of the watchlist.
C29_ExpansionFrame ==
    [][\A s \in 1..MaxExpandShows, n \in SeasonNumbers :
          toggleSeasonExpansion(s, n) =>
             /\ Len(watchlist') = Len(watchlist)
             /\ \A k \in DOMAIN watchlist :
                   IF watchlist[k].id = s
                   THEN /\ watchlist'[k] =
                              [watchlist[k] EXCEPT !.expandedSeasons = watchlist'[k].expandedSeasons]
                        /\ watchlist'[k].expandedSeasons # watchlist[k].expandedSeasons
                   ELSE watchlist'[k] = watchlist[k]]_vars

\* One show has a season expanded and a watched episode, the other show has
\* no season expanded
C29_Witness ==
    /\ Len(watchlist) = 2
    /\ watchlist[1].expandedSeasons # <<>>
    /\ watchlist[1].watchedEpisodesCount > 0
    /\ watchlist[2].expandedSeasons = <<>>
    /\ watchlist[2].totalEpisodes > 0

----------------------------------------------------------------------------
(* Properties of the bulk marks on episodes that are already watched *)

\* C30: every episode that is watched before markSeasonWatched(show, s, true)
\* or markSeriesWatched(show, true) is watched after it.
C30_MarkKeepsWatched ==
    [][\A s \in ShowIds :
          ((\E n \in {1, 2} : seasonMarked(s, n, TRUE)) \/ seriesMarked(s, TRUE)) =>
             watchedIds(watchlist, s) \subseteq watchedIds(watchlist', s)]_vars

----------------------------------------------------------------------------
(* The scheduling effect taken on its own: the timers that                  *)
(* scheduleNextUpdate sets, the re-runs of the effect when the length of    *)
(* the watchlist changes, and the runs of updateShowsDaily that the timers  *)
(* start.  A run is followed from its start to its end only: what it writes *)
(* to the watchlist is the matter of the other specifications.              *)

MaxTimers == 3
MaxTimerShows == 2

\* setTimeout(..., msUntilMidnight) at time t: the timer is due at the next
\* midnight.  held is whether its id is the timeoutId of the effect's
\* cleanup; closure is the watchlist that its updateShowsDaily reads
scheduleNextUpdate(held, closure, t) == [held |-> held, closure |-> closure, due |-> t + OneDay]

\* The watchlist was loaded with a tracked show and the effect has run
TimersInit ==
    /\ watchlist = <<trackedShow(1)>>
    /\ closureWatchlist = watchlist
    /\ now = 0
    /\ addFetch = {}
    /\ run = IdleRun
    /\ db = [id \in 1..MaxTimerShows |-> IF id = 1 THEN Some(serializeShow(trackedShow(1))) ELSE None]
    /\ failedWrites = 0
    /\ obs = NoObs
    /\ lab = LabOff
    /\ service = ServiceOff
    /\ timers = [pending |-> <<scheduleNextUpdate(TRUE, watchlist, now)>>,
                 effectLength |-> Len(watchlist), runs |-> 0]
    /\ hist = HistOff

\* The effect has run for the current length of the watchlist
effectSettled == Len(watchlist) = timers.effectLength

\* watchlist.length has changed: the cleanup of the effect clears the timer
\* whose id it holds, and the effect runs again and sets a timer
effectRerun ==
    /\ ~effectSettled
    /\ LET NotHeld(tm) == ~tm.held
           kept == SelectSeq(timers.pending, NotHeld)
       IN /\ Len(kept) < MaxTimers
          /\ timers' = [timers EXCEPT
                !.pending = Append(kept, scheduleNextUpdate(TRUE, watchlist, now)),
                !.effectLength = Len(watchlist)]
    /\ UNCHANGED <<watchlist, closureWatchlist, now, addFetch, run, db, failedWrites, obs, lab, service, hist>>

\* Midnight has passed and the k-th pending timer fires: updateShowsDaily()
\* starts a run unless its watchlist has no stale show, and
\* scheduleNextUpdate() sets the next timer, whose id is not kept
timerFires(k) ==
    /\ effectSettled
    /\ k \in DOMAIN timers.pending
    /\ timers.pending[k].due <= now
    /\ LET tm == timers.pending[k]
           Stale(show) == isStale(show, now)
           showsToUpdate == SelectSeq(tm.closure, Stale)
           rest == SubSeq(timers.pending, 1, k - 1) \o SubSeq(timers.pending, k + 1, Len(timers.pending))
       IN timers' = [timers EXCEPT
             !.pending = Append(rest, scheduleNextUpdate(FALSE, tm.closure, now)),
             !.runs = IF Len(showsToUpdate) = 0 THEN timers.runs ELSE timers.runs + 1]
    /\ UNCHANGED <<watchlist, closureWatchlist, now, addFetch, run, db, failedWrites, obs, lab, service, hist>>

\* A run of updateShowsDaily has gone through its last batch
runEnds ==
    /\ timers.runs > 0
    /\ timers' = [timers EXCEPT !.runs = timers.runs - 1]
    /\ UNCHANGED <<watchlist, closureWatchlist, now, addFetch, run, db, failedWrites, obs, lab, service, hist>>

\* A day passes once the timers that were due have fired
midnight ==
    /\ effectSettled
    /\ \A k \in DOMAIN timers.pending : timers.pending[k].due > now
    /\ Tick

TimersNext ==
    \/ midnight
    \/ effectRerun
    \/ \E k \in 1..MaxTimers : timerFires(k)
    \/ runEnds
    \/ \E s \in 2..MaxTimerShows : effectSettled /\ addToWatchlist(s, None, TRUE)
    \/ \E s \in 2..MaxTimerShows, o \in ServiceOutcomes : addFetchDone(s, o, TRUE)
    \/ \E s \in 2..MaxTimerShows : effectSettled /\ removeFromWatchlist(s, TRUE)

SpecTimers == TimersInit /\ [][TimersNext]_vars

----------------------------------------------------------------------------
(* Properties of the scheduling *)

\* C31: at any time at most one timer of the scheduled refresh is pending
\* and at most one refresh run is in progress.
C31_OneTimerOneRun ==
    /\ Len(timers.pending) <= 1
    /\ timers.runs <= 1

\* C31, its second half alone: at most one refresh run is in progress
C31_OneRun == timers.runs <= 1

----------------------------------------------------------------------------
(* Properties of the watched flags against the clock *)

\* C32: in every reachable state of the client watchlist, no episode
\* whose air date is after the current time is watched.
C32_NoUnairedEpisodeWatched ==
    \A i \in DOMAIN watchlist : \A k \in DOMAIN watchlist[i].episodes :
        LET ep == watchlist[i].episodes[k]
        IN (ParseDate(ep.airDate) # None /\ ~hasAired(ep.airDate, now)) => ~ep.watched

----------------------------------------------------------------------------
(* The refresh runs under the scheduling that lets them go on: every fetch  *)
(* of a batch settles, with an answer or with a failure, the writes of a    *)
(* batch settle, and the timer of the delay fires                           *)

SpecBatchFair ==
    /\ BatchInit
    /\ [][BatchNext]_vars
    /\ WF_vars(\E k \in 1..MaxBatchShows, o \in FetchOutcomes : batchFetchDone(k, o))
    /\ WF_vars(\E saved \in SUBSET (1..MaxBatchShows) : applyBatch(saved))
    /\ WF_vars(delayElapsed)
    /\ WF_vars(\E k \in 1..serviceBatchSize, o \in ServiceOutcomes, f \in PrismaFailures :
                  batchPromiseSettled(k, o, f))
    /\ WF_vars(batchPromisesAwaited)
    /\ WF_vars(serviceDelayElapsed)

\* Math.ceil(n / b)
ceilDiv(n, b) == (n + b - 1) \div b

\* Every element of ids was attempted once, and nothing else was attempted
attemptedOnce(attempts, ids) ==
    /\ BagToSet(attempts) = ids
    /\ \A id \in ids : CopiesIn(id, attempts) = 1

\* C33: every refresh run terminates: the client's run and the service's
\* job, once started, end; at its end a run over n stale shows with batch
\* size b has run ceil(n/b) batches and has attempted each stale show
\* exactly once, whether the fetches succeeded or failed.
C33_RunTerminates ==
    /\ (run.pc # "idle") ~> (run.pc = "idle")
    /\ (service.pc \in {"running", "delay"}) ~> (service.pc = "returned")
    /\ [][/\ (run.pc # "idle" /\ run'.pc = "idle") =>
                /\ hist.batches = ceilDiv(Len(run.showsToUpdate), batchSize)
                /\ attemptedOnce(hist.attempts, {run.showsToUpdate[j].id : j \in DOMAIN run.showsToUpdate})
          /\ (service.pc # "returned" /\ service'.pc = "returned") =>
                /\ hist'.jobBatches = ceilDiv(Len(service'.showsToUpdate), serviceBatchSize)
                /\ attemptedOnce(hist'.jobAttempts, Range(service'.showsToUpdate))]_vars

\* The job has returned after two batches in which a fetch had failed and
\* an update had gone through
C33_Witness ==
    /\ service.pc = "returned"
    /\ hist.jobBatches = 2
    /\ service.fetchFailed # {}
    /\ service.updatedCount > 0

\* The client's run is through the fetches of its second batch, the last
\* one, and a fetch of it has failed
C33_ClientWitness ==
    /\ run.pc = "fetching"
    /\ hist.batches = 2
    /\ \A k \in DOMAIN run.updates : run.updates[k] # None
    /\ \E k \in DOMAIN obs.ok : obs.ok[k] = Some(FALSE)

----------------------------------------------------------------------------
(* One show of the multi-user backend through its refreshes: the Show row   *)
(* and its Episode rows as POST /api/watchlist created them, then           *)
(* updateSingleShow again and again, against a source whose listing gains,  *)
(* keeps and loses episodes                                                 *)

MaxRefreshEpisodes == 3

\* The listings of the source: the episodes of a set of ids, in order
refreshListing(ids) ==
    LET Listed(ep) == ep.id \in ids
        all == [id \in 1..MaxRefreshEpisodes |-> RawEpisode(id, 1, id, "a", Some(0))]
    IN SelectSeq(all, Listed)

RefreshOutcomes ==
    {[ok |-> FALSE, body |-> <<>>]} \cup
    {[ok |-> TRUE, body |-> refreshListing(ids)] : ids \in SUBSET (1..MaxRefreshEpisodes)}

\* prisma.show.create, episode.createMany and show.update of the POST route,
\* for a show whose listing has episodes
createdShow(outcome, t) ==
    LET episodesData == fetchEpisodesFromTvmaze(outcome)
    IN [lastApiUpdate |-> t, totalEpisodes |-> Len(episodesData), episodes |-> Range(episodesData)]

RefreshInit ==
    /\ watchlist = <<>>
    /\ closureWatchlist = <<>>
    /\ now = 0
    /\ addFetch = {}
    /\ timers = TimersOff
    /\ hist = HistOff
    /\ run = IdleRun
    /\ db = [s \in ShowIds |-> None]
    /\ failedWrites = 0
    /\ obs = NoObs
    /\ lab = LabOff
    /\ \E o \in RefreshOutcomes :
          /\ Len(fetchEpisodesFromTvmaze(o)) > 0
          /\ service = [pc |-> "refresh", row |-> createdShow(o, now), completed |-> FALSE, latest |-> <<>>]

\* updateSingleShow runs for the show: completed is whether it returned
\* rather than threw, latest the listing it got from the source
refreshShow(outcome, failAt) ==
    /\ service.pc = "refresh"
    /\ LET done == updateSingleShow(service.row, outcome, failAt, now)
       IN service' = [service EXCEPT
             !.row = done.row,
             !.completed = ~done.threw,
             !.latest = fetchEpisodesFromTvmaze(outcome)]
    /\ UNCHANGED <<watchlist, closureWatchlist, now, addFetch, run, db, failedWrites, obs, lab, timers, hist>>

RefreshNext ==
    \/ Tick
    \/ \E o \in RefreshOutcomes, f \in PrismaFailures : refreshShow(o, f)

SpecRefresh == RefreshInit /\ [][RefreshNext]_vars

\* C34: after updateSingleShow completes for a show, the show's stored
\* totalEpisodes equals the number of episode rows stored for that show.
C34_TotalEqualsRows ==
    (service.pc = "refresh" /\ service.completed) =>
        service.row.totalEpisodes = Cardinality(service.row.episodes)

----------------------------------------------------------------------------
(* The handlers of the watched flags called with any show id, tracked or    *)
(* not: a watchlist of up to MaxCallShows shows, from which shows are       *)
(* removed while the handlers are called                                    *)

MaxCallShows == 2

\* const currentShow = watchlist.find(show => show.id === showId);
\* if (!currentShow) { console.error(...); return; }
showNotFound(handler, showId) ==
    /\ findShow(watchlist, showId) = None
    /\ hist' = [hist EXCEPT !.call = Some([handler |-> handler, showId |-> showId])]
    /\ UNCHANGED <<watchlist, closureWatchlist, now, addFetch, run, db, failedWrites, obs, lab, service, timers>>

\* The handlers, with the branch of the show that is not found
toggleCalled(showId, episodeId, saved) ==
    \/ showNotFound("toggleEpisodeWatched", showId)
    \/ toggleEpisodeWatched(showId, episodeId, saved)

seasonCalled(showId, seasonNumber, watched, saved) ==
    \/ showNotFound("markSeasonWatched", showId)
    \/ markSeasonWatched(showId, seasonNumber, watched, saved)

seriesCalled(showId, watched, saved) ==
    \/ showNotFound("markSeriesWatched", showId)
    \/ markSeriesWatched(showId, watched, saved)

CallsInit ==
    /\ \E n \in 0..MaxCallShows :
          /\ watchlist = [id \in 1..n |-> trackedShow(id)]
          /\ db = [id \in 1..MaxCallShows |-> IF id <= n THEN Some(serializeShow(trackedShow(id))) ELSE None]
    /\ closureWatchlist = watchlist
    /\ now = 0
    /\ addFetch = {}
    /\ timers = TimersOff
    /\ hist = HistOff
    /\ run = IdleRun
    /\ failedWrites = 0
    /\ obs = NoObs
    /\ lab = LabOff
    /\ service = ServiceOff

CallsNext ==
    \/ Tick
    \/ \E s \in 1..MaxCallShows, e \in EpisodeIds, saved \in BOOLEAN : toggleCalled(s, e, saved)
    \/ \E s \in 1..MaxCallShows, n \in SeasonNumbers, w \in BOOLEAN, saved \in BOOLEAN :
          seasonCalled(s, n, w, saved)
    \/ \E s \in 1..MaxCallShows, w \in BOOLEAN, saved \in BOOLEAN : seriesCalled(s, w, saved)
    \/ \E s \in 1..MaxCallShows : removeFromWatchlist(s, TRUE)

SpecCalls == CallsInit /\ [][CallsNext]_vars

\* No show of the watchlist has the id showId
notTracked(showId) == \A i \in DOMAIN watchlist : watchlist[i].id # showId

\* One of the three handlers is called with showId
handlerCalled(showId) ==
    \/ \E e \in EpisodeIds, saved \in BOOLEAN : toggleCalled(showId, e, saved)
    \/ \E n \in SeasonNumbers, w \in BOOLEAN, saved \in BOOLEAN : seasonCalled(showId, n, w, saved)
    \/ \E w \in BOOLEAN, saved \in BOOLEAN : seriesCalled(showId, w, saved)

\* C35: toggleEpisodeWatched, markSeasonWatched and markSeriesWatched called
\* with a show id that is not in the watchlist leave the watchlist unchanged
\* and issue no persistence write: the store and the count of failed
\* requests stay as they are.
C35_NotFoundChangesNothing ==
    [][\A s \in 1..MaxCallShows :
          (notTracked(s) /\ handlerCalled(s)) =>
              /\ watchlist' = watchlist
              /\ db' = db
              /\ failedWrites' = failedWrites]_vars

\* A handler was called for a show that had been removed, while another
\* show is tracked
C35_Witness ==
    /\ hist.call # None
    /\ notTracked(hist.call[1].showId)
    /\ db[hist.call[1].showId] = None
    /\ Len(watchlist) > 0

----------------------------------------------------------------------------
(* Shows added again: a watchlist of up to MaxReAddShows shows to which     *)
(* shows are added, tracked already or not, and from which they are removed *)

MaxReAddShows == 2

\* if (watchlist.find(w => w.id === item.id)) { console.log(...); return; }
alreadyInWatchlist(showId) ==
    /\ findShow(watchlist, showId) # None
    /\ hist' = [hist EXCEPT !.call = Some([handler |-> "addToWatchlist", showId |-> showId])]
    /\ UNCHANGED <<watchlist, closureWatchlist, now, addFetch, run, db, failedWrites, obs, lab, service, timers>>

\* addToWatchlist, with the branch of the item that is in the watchlist
addCalled(showId, searchNext, saved) ==
    \/ alreadyInWatchlist(showId)
    \/ addToWatchlist(showId, searchNext, saved)

ReAddInit ==
    /\ \E n \in 0..MaxReAddShows :
          /\ watchlist = [id \in 1..n |-> trackedShow(id)]
          /\ db = [id \in 1..MaxReAddShows |-> IF id <= n THEN Some(serializeShow(trackedShow(id))) ELSE None]
    /\ closureWatchlist = watchlist
    /\ now = 0
    /\ addFetch = {}
    /\ timers = TimersOff
    /\ hist = HistOff
    /\ run = IdleRun
    /\ failedWrites = 0
    /\ obs = NoObs
    /\ lab = LabOff
    /\ service = ServiceOff

ReAddNext ==
    \/ \E s \in 1..MaxReAddShows, saved \in BOOLEAN : addCalled(s, None, saved)
    \/ \E s \in 1..MaxReAddShows, o \in ServiceOutcomes, saved \in BOOLEAN : addFetchDone(s, o, saved)
    \/ \E s \in 1..MaxReAddShows, saved \in BOOLEAN : removeFromWatchlist(s, saved)

SpecReAdd == ReAddInit /\ [][ReAddNext]_vars

\* No two elements of list have the same id
uniqueIds(list) == \A i, j \in DOMAIN list : list[i].id = list[j].id => i = j

\* A show of the watchlist has the id showId
tracked(showId) == \E i \in DOMAIN watchlist : watchlist[i].id = showId

\* C36: no two shows of the client watchlist have the same id, the store
\* holds at most one row per show id (each row under its own id, and the
\* watchlist loaded from the store without a repeated id), and
\* addToWatchlist called for an id that is tracked already changes neither
\* the watchlist nor the store, and sends no request.
C36_NoShowTwice ==
    /\ [](/\ uniqueIds(watchlist)
          /\ uniqueIds(loadWatchlist(db))
          /\ \A id \in DOMAIN db : db[id] # None => db[id][1].id = id)
    /\ [][\A s \in 1..MaxReAddShows :
             (tracked(s) /\ \E saved \in BOOLEAN : addCalled(s, None, saved)) =>
                 /\ watchlist' = watchlist
                 /\ db' = db
                 /\ failedWrites' = failedWrites
                 /\ addFetch' = addFetch]_vars

\* addToWatchlist was called for a show that is in a watchlist of two shows
\* and in the store
C36_Witness ==
    /\ hist.call # None
    /\ hist.call[1].handler = "addToWatchlist"
    /\ tracked(hist.call[1].showId)
    /\ db[hist.call[1].showId] # None
    /\ Len(watchlist) = MaxReAddShows

====
